---- MODULE Spec2Model ----
(***************************************************************************)
(* A model of wfdb-rs: the signal-format decoders, the multi-signal frame  *)
(* reader, the single-signal reader, the multi-segment reader and the      *)
(* record-line parser.  Byte streams are sequences of 0..255; a stream     *)
(* cursor is the number of bytes already consumed.                         *)
(***************************************************************************)
EXTENDS Integers, Sequences, FiniteSets, TLC

VARIABLES dec, msr, sr, seg, hdr, sig, hea, rdr, pair

vars == <<dec, msr, sr, seg, hdr, sig, hea, rdr, pair>>

(***************************************************************************)
(* Bounds of the model.                                                    *)
(***************************************************************************)
MaxBytes == 4
MaxReq == 3
MaxOut == 6
MaxSignals == 2
MaxFileBytes == 8
MaxSeek == 2
MaxFrames == 5
MaxSegs == 3
MaxSegSamples == 2
MaxReads == 4
MaxSeekSample == 4
MaxFields == 3
MaxTailFields == 1
MaxSigTail == 2
MaxSpecLines == 3
MaxStoredFrames == 2
MaxPairOps == 3
MaxLongBytes == 8
MaxWidth == 3

(***************************************************************************)
(* Scalars.                                                                *)
(***************************************************************************)
I32Max == 2147483647
I32Min == (-2147483647) - 1
INVALID_SAMPLE == I32Min

Idle == [on |-> FALSE]

Formats == {0, 8, 16, 24, 32, 61, 80, 160, 212, 310, 311}

Pow2(k) == 2 ^ k

SatAdd(v, d) ==
    IF d > 0 /\ v > I32Max - d THEN I32Max
    ELSE IF d < 0 /\ v < I32Min - d THEN I32Min
    ELSE v + d

\* u8 -> i8
I8(b) == IF b >= 128 THEN b - 256 ELSE b

\* two bytes -> u16 (first argument is the low byte)
U16(lo, hi) == lo + 256 * hi

\* u16 -> i16
I16(w) == IF w >= 32768 THEN w - 65536 ELSE w

sign_extend(value, bits) ==
    LET m == value % Pow2(bits)
    IN  IF m >= Pow2(bits - 1) THEN m - Pow2(bits) ELSE m

\* mutant of MarkInvalid: the marker check is left out
MarkInvalidNever(value, marker) == value

\* `if value == marker { INVALID_SAMPLE } else { value }`
MarkInvalid(value, marker) == IF value = marker THEN INVALID_SAMPLE ELSE value

(***************************************************************************)
(* Decoders.  A decoder is [fmt, acc, buf, phase]: acc is Format 8's       *)
(* current_value; buf is Format 212's Option<u16> (<<>> is None), Format   *)
(* 310's two words, Format 311's word as its four little-endian bytes;     *)
(* phase is is_second (212) or position (310, 311).                        *)
(***************************************************************************)
get_decoder(fmt, initial_value) ==
    [fmt |-> fmt,
     acc |-> IF fmt = 8 THEN initial_value ELSE 0,
     buf |-> CASE fmt = 310 -> <<0, 0>>
               [] fmt = 311 -> <<0, 0, 0, 0>>
               [] OTHER -> <<>>,
     phase |-> 0]

Format8Reset(d) == [d EXCEPT !.acc = 0]

\* mutant of PackedReset: the position within the group is kept
PackedResetKeepsPhase(d) ==
    [d EXCEPT !.buf = CASE d.fmt = 310 -> <<0, 0>>
                        [] d.fmt = 311 -> <<0, 0, 0, 0>>
                        [] OTHER -> <<>>]

PackedReset(d) ==
    [d EXCEPT !.buf = CASE d.fmt = 310 -> <<0, 0>>
                        [] d.fmt = 311 -> <<0, 0, 0, 0>>
                        [] OTHER -> <<>>,
              !.phase = 0]

reset(d) ==
    CASE d.fmt = 8 -> Format8Reset(d)
      [] d.fmt \in {212, 310, 311} -> PackedReset(d)
      [] OTHER -> d

NoneU == -1

bytes_per_sample(fmt) ==
    CASE fmt = 0 -> 0
      [] fmt \in {8, 80} -> 1
      [] fmt \in {16, 61, 160} -> 2
      [] fmt = 24 -> 3
      [] fmt = 32 -> 4
      [] OTHER -> NoneU

DivCeil(n, k) == (n + k - 1) \div k

bytes_per_frame(fmt, num_signals) ==
    CASE fmt = 212 -> DivCeil(num_signals, 2) * 3
      [] fmt = 310 -> DivCeil(num_signals, 3) * 4
      [] bytes_per_sample(fmt) # NoneU -> bytes_per_sample(fmt) * num_signals
      [] OTHER -> NoneU

\* read_exact of k bytes at cursor pos: on a short stream the rest is consumed
read_exact(bytes, pos, k) ==
    IF pos + k <= Len(bytes)
    THEN [ok |-> TRUE, pos |-> pos + k]
    ELSE [ok |-> FALSE, pos |-> IF pos > Len(bytes) THEN pos ELSE Len(bytes)]

Emit(d, pos, raw, marker) ==
    [d |-> d, pos |-> pos, out |-> <<MarkInvalid(raw, marker)>>, raw |-> <<raw>>,
     brk |-> FALSE]

Break(d, pos) == [d |-> d, pos |-> pos, out |-> <<>>, raw |-> <<>>, brk |-> TRUE]

Step0(d, bytes, pos) ==
    [d |-> d, pos |-> pos, out |-> <<INVALID_SAMPLE>>, raw |-> <<INVALID_SAMPLE>>,
     brk |-> FALSE]

Step8(d, bytes, pos) ==
    LET r == read_exact(bytes, pos, 1)
        diff == I8(bytes[pos + 1])
        cur == SatAdd(d.acc, diff)
    IN  IF r.ok
        THEN [d |-> [d EXCEPT !.acc = cur], pos |-> r.pos,
              out |-> <<IF diff = -128 /\ cur = -128 THEN INVALID_SAMPLE ELSE cur>>,
              raw |-> <<cur>>, brk |-> FALSE]
        ELSE Break(d, r.pos)

\* formats 16, 24, 32, 61, 80, 160: one fixed-width value per sample
FixedValue(fmt, bytes, pos) ==
    CASE fmt = 16 -> I16(U16(bytes[pos + 1], bytes[pos + 2]))
      [] fmt = 61 -> I16(U16(bytes[pos + 2], bytes[pos + 1]))
      [] fmt = 160 -> U16(bytes[pos + 1], bytes[pos + 2]) - 32768
      [] fmt = 80 -> bytes[pos + 1] - 128
      [] fmt = 24 ->
           LET v == bytes[pos + 1] + 256 * bytes[pos + 2] + 65536 * bytes[pos + 3]
           IN  IF v >= 8388608 THEN v - 16777216 ELSE v
      [] fmt = 32 ->
           bytes[pos + 1] + 256 * bytes[pos + 2] + 65536 * bytes[pos + 3]
             + 16777216 * I8(bytes[pos + 4])

FixedMarker(fmt) ==
    CASE fmt \in {16, 61, 160} -> -32768
      [] fmt = 80 -> -128
      [] fmt = 24 -> -8388608
      [] fmt = 32 -> I32Min

StepFixed(d, bytes, pos) ==
    LET r == read_exact(bytes, pos, bytes_per_sample(d.fmt))
    IN  IF r.ok
        THEN Emit(d, r.pos, FixedValue(d.fmt, bytes, pos), FixedMarker(d.fmt))
        ELSE Break(d, r.pos)

\* (variant) the second sample of a pair takes the low nibble of byte1
Step212LowNibbleTwice(d, bytes, pos) ==
    IF d.phase = 1
    THEN LET r == read_exact(bytes, pos, 1)
         IN  IF r.ok /\ d.buf # <<>>
             THEN Emit([d EXCEPT !.buf = <<>>, !.phase = 0], r.pos,
                       sign_extend(((d.buf[1] \div 256) % 16) * 256 + bytes[pos + 1], 12),
                       -2048)
             ELSE Break([d EXCEPT !.buf = <<>>, !.phase = 0], r.pos)
    ELSE LET r == read_exact(bytes, pos, 2)
             word == U16(bytes[pos + 1], bytes[pos + 2])
         IN  IF r.ok
             THEN Emit([d EXCEPT !.buf = <<word>>, !.phase = 1], r.pos,
                       sign_extend(word % 4096, 12), -2048)
             ELSE Break(d, r.pos)

\* (variant) a decoder that emits only the first sample of each byte triple
Step212FirstOfPair(d, bytes, pos) ==
    LET r == read_exact(bytes, pos, 3)
    IN  IF r.ok
        THEN Emit(d, r.pos, sign_extend(U16(bytes[pos + 1], bytes[pos + 2]) % 4096, 12), -2048)
        ELSE Break(d, r.pos)

Step212(d, bytes, pos) ==
    IF d.phase = 1
    THEN LET r == read_exact(bytes, pos, 1)
         IN  IF r.ok
             THEN IF d.buf = <<>>
                  THEN \* `continue`: the byte is dropped and nothing is counted
                       [d |-> [d EXCEPT !.phase = 0], pos |-> r.pos, out |-> <<>>,
                        raw |-> <<>>, brk |-> FALSE]
                  ELSE LET high_bits == (d.buf[1] \div 4096) % 16
                           raw_value == high_bits * 256 + bytes[pos + 1]
                       IN  Emit([d EXCEPT !.buf = <<>>, !.phase = 0], r.pos,
                                sign_extend(raw_value, 12), -2048)
             ELSE Break([d EXCEPT !.buf = <<>>, !.phase = 0], r.pos)
    ELSE LET r == read_exact(bytes, pos, 2)
             word == U16(bytes[pos + 1], bytes[pos + 2])
         IN  IF r.ok
             THEN Emit([d EXCEPT !.buf = <<word>>, !.phase = 1], r.pos,
                       sign_extend(word % 4096, 12), -2048)
             ELSE Break(d, r.pos)

\* (variant) the end of the stream after the first word leaves the position
Step310KeepsPosition(d, bytes, pos) ==
    CASE d.phase = 0 ->
           LET r == read_exact(bytes, pos, 2)
               w == U16(bytes[pos + 1], bytes[pos + 2])
           IN  IF r.ok
               THEN Emit([d EXCEPT !.buf[1] = w, !.phase = 1], r.pos,
                         sign_extend((w \div 2) % 1024, 10), -512)
               ELSE Break(d, r.pos)
      [] d.phase = 1 ->
           LET r == read_exact(bytes, pos, 2)
               w == U16(bytes[pos + 1], bytes[pos + 2])
           IN  IF r.ok
               THEN Emit([d EXCEPT !.buf[2] = w, !.phase = 2], r.pos,
                         sign_extend((w \div 2) % 1024, 10), -512)
               ELSE Break(d, r.pos)
      [] OTHER ->
           LET high0 == (d.buf[1] \div 2048) % 32
               high1 == (d.buf[2] \div 2048) % 32
           IN  Emit([d EXCEPT !.phase = 0], pos,
                    sign_extend(high1 * 32 + high0, 10), -512)

Step310(d, bytes, pos) ==
    CASE d.phase = 0 ->
           LET r == read_exact(bytes, pos, 2)
               w == U16(bytes[pos + 1], bytes[pos + 2])
           IN  IF r.ok
               THEN Emit([d EXCEPT !.buf[1] = w, !.phase = 1], r.pos,
                         sign_extend((w \div 2) % 1024, 10), -512)
               ELSE Break(d, r.pos)
      [] d.phase = 1 ->
           LET r == read_exact(bytes, pos, 2)
               w == U16(bytes[pos + 1], bytes[pos + 2])
           IN  IF r.ok
               THEN Emit([d EXCEPT !.buf[2] = w, !.phase = 2], r.pos,
                         sign_extend((w \div 2) % 1024, 10), -512)
               ELSE Break([d EXCEPT !.phase = 0], r.pos)
      [] OTHER ->
           LET high0 == (d.buf[1] \div 2048) % 32
               high1 == (d.buf[2] \div 2048) % 32
           IN  Emit([d EXCEPT !.phase = 0], pos,
                    sign_extend(high1 * 32 + high0, 10), -512)

\* (variant) the fields taken at the bit offsets 20, 10 and 0
Field311Reversed(b, k) ==
    CASE k = 0 -> ((b[2] + 256 * b[3] + 65536 * b[4]) \div 4096) % 1024
      [] k = 1 -> ((b[1] + 256 * b[2] + 65536 * b[3]) \div 1024) % 1024
      [] OTHER -> (b[1] + 256 * b[2]) % 1024

\* the 10-bit field at bit offset 0, 10 or 20 of the little-endian word b
Field311(b, k) ==
    CASE k = 0 -> (b[1] + 256 * b[2]) % 1024
      [] k = 1 -> ((b[1] + 256 * b[2] + 65536 * b[3]) \div 1024) % 1024
      [] OTHER -> ((b[2] + 256 * b[3] + 65536 * b[4]) \div 4096) % 1024

Step311(d, bytes, pos) ==
    IF d.phase = 0
    THEN LET r == read_exact(bytes, pos, 4)
             b == <<bytes[pos + 1], bytes[pos + 2], bytes[pos + 3], bytes[pos + 4]>>
         IN  IF r.ok
             THEN Emit([d EXCEPT !.buf = b, !.phase = 1], r.pos,
                       sign_extend(Field311(b, 0), 10), -512)
             ELSE Break(d, r.pos)
    ELSE Emit([d EXCEPT !.phase = (d.phase + 1) % 3], pos,
              sign_extend(Field311(d.buf, d.phase), 10), -512)

\* one iteration of decode_buf's `for sample in output.iter_mut()`
DecodeStep(d, bytes, pos) ==
    CASE d.fmt = 0 -> Step0(d, bytes, pos)
      [] d.fmt = 8 -> Step8(d, bytes, pos)
      [] d.fmt = 212 -> Step212(d, bytes, pos)
      [] d.fmt = 310 -> Step310(d, bytes, pos)
      [] d.fmt = 311 -> Step311(d, bytes, pos)
      [] OTHER -> StepFixed(d, bytes, pos)

RECURSIVE DecodeLoop(_, _, _, _, _, _)
DecodeLoop(d, bytes, pos, n, out, raw) ==
    IF n = 0
    THEN [d |-> d, pos |-> pos, out |-> out, raw |-> raw]
    ELSE LET s == DecodeStep(d, bytes, pos)
         IN  IF s.brk
             THEN [d |-> s.d, pos |-> s.pos, out |-> out, raw |-> raw]
             ELSE DecodeLoop(s.d, bytes, s.pos, n - 1, out \o s.out, raw \o s.raw)

\* (variant) every call starts on a new group: what is held of the group
\* begun by the call before is dropped
decode_buf_restarting(d, bytes, pos, n) ==
    DecodeLoop(IF d.fmt \in {212, 310, 311} THEN PackedReset(d) ELSE d,
               bytes, pos, n, <<>>, <<>>)

\* decode_buf with an output buffer of n samples
decode_buf(d, bytes, pos, n) == DecodeLoop(d, bytes, pos, n, <<>>, <<>>)

(***************************************************************************)
(* Signal specifications and signal files.  A SignalInfo is [file_name,    *)
(* format, initial_value, byte_offset], the two last being Options (<<>>   *)
(* is None, <<v>> is Some(v)).  Signals are numbered from 1 here (from 0   *)
(* in the code).  files maps a file name to its bytes.                     *)
(***************************************************************************)
unwrap_or(opt, dflt) == IF opt = <<>> THEN dflt ELSE opt[1]

Indices(signals) == [i \in 1..Len(signals) |-> i]

FileNamesOf(signals) == {signals[i].file_name : i \in 1..Len(signals)}

\* the orders in which a HashMap may yield the keys S
Orders(S) ==
    {p \in [1..Cardinality(S) -> S] : \A i, j \in 1..Cardinality(S) : p[i] = p[j] => i = j}

(***************************************************************************)
(* MultiSignalReader: [groups, num_signals, current_frame]; a group is     *)
(* [file, decoder, pos, signal_indices, initial_offset].                   *)
(***************************************************************************)
MsrGroup(signals, f) ==
    LET InFile(i) == signals[i].file_name = f
        signal_indices == SelectSeq(Indices(signals), InFile)
        first_signal == signals[signal_indices[1]]
    IN  [file |-> f,
         decoder |-> get_decoder(first_signal.format,
                                 unwrap_or(first_signal.initial_value, 0)),
         pos |-> unwrap_or(first_signal.byte_offset, 0),
         signal_indices |-> signal_indices,
         initial_offset |-> unwrap_or(first_signal.byte_offset, 0)]

\* MultiSignalReader::new; order is the iteration order of file_groups
MsrNew(signals, order) ==
    [groups |-> [g \in 1..Len(order) |-> MsrGroup(signals, order[g])],
     num_signals |-> Len(signals),
     current_frame |-> 0]

\* frame with the samples of one group placed at its signals' indices
PlaceSamples(frame, signal_indices, group_samples) ==
    [i \in 1..Len(frame) |->
        IF \E w \in 1..Len(signal_indices) : signal_indices[w] = i
        THEN group_samples[CHOOSE w \in 1..Len(signal_indices) : signal_indices[w] = i]
        ELSE frame[i]]

\* (variant) a group that yields too few samples is always an error
ShortGroupAlwaysErr(r, n) == [r |-> r, kind |-> "err", frame |-> <<>>]

\* read_frame on a group that yielded n samples, fewer than its width: n == 0
\* is EOF (Ok(vec![])), a partial count is Err(InvalidHeader)
ShortGroup(r, n) ==
    IF n = 0 THEN [r |-> r, kind |-> "eof", frame |-> <<>>]
    ELSE [r |-> r, kind |-> "err", frame |-> <<>>]

RECURSIVE MsrReadGroups(_, _, _, _)
\* the `for group in &mut self.groups` loop of read_frame, from group gi on
MsrReadGroups(r, files, gi, frame) ==
    IF gi > Len(r.groups)
    THEN [r |-> [r EXCEPT !.current_frame = r.current_frame + 1],
          kind |-> "frame", frame |-> frame]
    ELSE LET g == r.groups[gi]
             width == Len(g.signal_indices)
             res == decode_buf(g.decoder, files[g.file], g.pos, width)
             n == Len(res.out)
             r1 == [r EXCEPT !.groups[gi].decoder = res.d, !.groups[gi].pos = res.pos]
         IN  IF n # width THEN ShortGroup(r1, n)
             ELSE MsrReadGroups(r1, files, gi + 1,
                                PlaceSamples(frame, g.signal_indices, res.out))

\* MultiSignalReader::read_frame: kind is "frame", "eof" (Ok(vec![])) or "err"
MsrReadFrame(r, files) ==
    MsrReadGroups(r, files, 1, [i \in 1..r.num_signals |-> 0])

RECURSIVE MsrSeekGroups(_, _, _)
MsrSeekGroups(r, gi, frame) ==
    IF gi > Len(r.groups)
    THEN [r |-> [r EXCEPT !.current_frame = frame], ok |-> TRUE]
    ELSE LET g == r.groups[gi]
             bpf == bytes_per_frame(g.decoder.fmt, Len(g.signal_indices))
         IN  IF bpf = NoneU
             THEN [r |-> r, ok |-> FALSE]
             ELSE MsrSeekGroups(
                      [r EXCEPT !.groups[gi].pos = g.initial_offset + frame * bpf,
                                !.groups[gi].decoder = reset(g.decoder)],
                      gi + 1, frame)

\* MultiSignalReader::seek_to_frame
MsrSeekToFrame(r, frame) == MsrSeekGroups(r, 1, frame)

(***************************************************************************)
(* SignalReader: [file, decoder, pos, signal_index_in_file (from 0),       *)
(* signals_in_file, current_sample, bytes_per_sample, initial_offset].     *)
(* frame_buffer is scratch that is rewritten before every use.             *)
(***************************************************************************)
SameFileAndFormat(signals, a, b) ==
    signals[a].file_name = signals[b].file_name /\ signals[a].format = signals[b].format

\* SignalReader::new for the signal at signal_index
SrNew(signals, signal_index) ==
    LET signal_info == signals[signal_index]
        decoder == get_decoder(signal_info.format, unwrap_or(signal_info.initial_value, 0))
        bps == bytes_per_sample(signal_info.format)
        initial_offset == unwrap_or(signal_info.byte_offset, 0)
    IN  [file |-> signal_info.file_name,
         decoder |-> decoder,
         pos |-> initial_offset,
         signal_index_in_file |->
             Cardinality({i \in 1..(signal_index - 1) :
                            SameFileAndFormat(signals, i, signal_index)}),
         signals_in_file |->
             Cardinality({i \in 1..Len(signals) :
                            SameFileAndFormat(signals, i, signal_index)}),
         current_sample |-> 0,
         bytes_per_sample |-> IF bps = NoneU THEN 0 ELSE bps,
         initial_offset |-> initial_offset]

RECURSIVE SrReadInterleaved(_, _, _, _, _)
\* the per-sample loop of read_samples_buf for signals_in_file > 1; the stateful
\* branch (bytes_per_sample == 0) resets the decoder and asks bytes_per_frame
SrReadInterleaved(r, bytes, n, out, stateful) ==
    IF n = 0
    THEN [r |-> r, ok |-> TRUE, out |-> out]
    ELSE LET d0 == IF stateful THEN reset(r.decoder) ELSE r.decoder
             bpf == IF stateful
                    THEN bytes_per_frame(d0.fmt, r.signals_in_file)
                    ELSE r.signals_in_file * r.bytes_per_sample
             byte_offset == r.initial_offset + r.current_sample * bpf
             res == decode_buf(d0, bytes, byte_offset, r.signals_in_file)
             r1 == [r EXCEPT !.decoder = res.d, !.pos = res.pos]
         IN  IF bpf = NoneU
             THEN [r |-> [r EXCEPT !.decoder = d0], ok |-> FALSE, out |-> out]
             ELSE IF Len(res.out) = 0 THEN [r |-> r1, ok |-> TRUE, out |-> out]
             ELSE IF Len(res.out) < r.signals_in_file
                  THEN [r |-> r1, ok |-> FALSE, out |-> out]
             ELSE SrReadInterleaved(
                      [r1 EXCEPT !.current_sample = r.current_sample + 1], bytes, n - 1,
                      Append(out, res.out[r.signal_index_in_file + 1]), stateful)

\* SignalReader::read_samples_buf with a buffer of n samples: ok is Ok/Err, out
\* the samples written
SrReadSamplesBuf(r, files, n) ==
    IF r.signals_in_file <= 1
    THEN LET res == decode_buf(r.decoder, files[r.file], r.pos, n)
         IN  [r |-> [r EXCEPT !.decoder = res.d, !.pos = res.pos,
                              !.current_sample = r.current_sample + Len(res.out)],
              ok |-> TRUE, out |-> res.out]
    ELSE SrReadInterleaved(r, files[r.file], n, <<>>, r.bytes_per_sample = 0)

\* SignalReader::seek_to_sample
SrSeekToSample(r, sample) ==
    LET bpf == IF r.signals_in_file <= 1
               THEN (IF r.bytes_per_sample > 0 THEN r.bytes_per_sample ELSE NoneU)
               ELSE IF r.bytes_per_sample = 0
                    THEN bytes_per_frame(r.decoder.fmt, r.signals_in_file)
                    ELSE r.signals_in_file * r.bytes_per_sample
    IN  IF bpf = NoneU
        THEN [r |-> r, ok |-> FALSE, ret |-> 0]
        ELSE [r |-> [r EXCEPT !.pos = r.initial_offset + sample * bpf,
                              !.decoder = reset(r.decoder),
                              !.current_sample = sample],
              ok |-> TRUE, ret |-> sample]

\* SignalReader::seek_to_time: the placeholder returns Err for every argument
\* and leaves the reader alone
SrSeekToTime(r, seconds) == [r |-> r, ok |-> FALSE, ret |-> 0]

(***************************************************************************)
(* Decoder harness: one decoder over one byte stream.  decode_buf and      *)
(* reset are applied to it; a decoder newly built by get_decoder with the  *)
(* same arguments (tw) and one built with initial value 0 (tz) are started *)
(* on the same stream position at every reset and given the same requests. *)
(***************************************************************************)
SeqsUpTo(S, n) == UNION {[1..k -> S] : k \in 0..n}

ByteVals(fmt) ==
    CASE fmt = 0 -> {0}
      [] fmt = 8 -> {10, 127, 128}
      [] fmt = 212 -> {0, 8, 128}
      [] fmt = 310 -> {0, 4, 128}
      [] fmt = 311 -> {0, 2, 8, 32}
      [] OTHER -> {0, 128, 255}

\* longer streams, of one fixed content, so that the packed formats see
\* several whole groups
LongStreams ==
    {[i \in 1..len |-> (37 * i + 11) % 256] : len \in (MaxBytes + 1)..MaxLongBytes}

InitialValues(fmt) ==
    IF fmt = 8 THEN {0, 100, I32Max - 100, I32Min + 100} ELSE {0}

Twin(fmt, iv, p) == [d |-> get_decoder(fmt, iv), pos |-> p, out |-> <<>>]

TwinDecode(t, bytes, n) ==
    LET r == decode_buf(t.d, bytes, t.pos, n)
    IN  [d |-> r.d, pos |-> r.pos, out |-> t.out \o r.out]

InitDec ==
    /\ \E fmt \in Formats :
         \E iv \in InitialValues(fmt) :
           \E bytes \in SeqsUpTo(ByteVals(fmt), MaxBytes) \cup LongStreams :
             dec = [on |-> TRUE, fmt |-> fmt, iv |-> iv, bytes |-> bytes,
                    d |-> get_decoder(fmt, iv), pos |-> 0, base |-> 0,
                    out |-> <<>>, raw |-> <<>>, last |-> -1, req |-> 0, total |-> 0,
                    wasReset |-> FALSE,
                    frame_bytes |-> <<>>, done |-> FALSE, item |-> <<>>, advances |-> 0,
                    tw |-> Twin(fmt, iv, 0), tz |-> Twin(fmt, 0, 0)]
    /\ msr = Idle /\ sr = Idle /\ seg = Idle /\ hdr = Idle /\ sig = Idle /\ hea = Idle /\ rdr = Idle /\ pair = Idle

DecDecodeBuf(n) ==
    /\ dec.on
    /\ Len(dec.out) + n <= MaxOut
    /\ LET r == decode_buf(dec.d, dec.bytes, dec.pos, n)
       IN  dec' = [dec EXCEPT !.d = r.d, !.pos = r.pos,
                              !.out = dec.out \o r.out, !.raw = dec.raw \o r.raw,
                              !.last = Len(r.out), !.req = n,
                              !.tw = TwinDecode(dec.tw, dec.bytes, n),
                              !.tz = TwinDecode(dec.tz, dec.bytes, n)]
    /\ UNCHANGED <<msr, sr, seg, hdr, sig, hea, rdr, pair>>

\* reset(), then decoding goes on at stream position p (0: the stream's start)
DecReset(p) ==
    /\ dec.on
    /\ dec' = [dec EXCEPT !.d = reset(dec.d), !.pos = p, !.base = p,
                          !.out = <<>>, !.raw = <<>>, !.last = -1, !.req = 0,
                          !.wasReset = TRUE,
                          !.tw = Twin(dec.fmt, dec.iv, p),
                          !.tz = Twin(dec.fmt, 0, p)]
    /\ UNCHANGED <<msr, sr, seg, hdr, sig, hea, rdr, pair>>

\* bytes_per_frame(num_signals) asked of the decoder; frame_bytes keeps the
\* argument and the answer (NoneU is None)
DecBytesPerFrame(num_signals) ==
    /\ dec.on
    /\ dec' = [dec EXCEPT !.frame_bytes =
                              <<num_signals, bytes_per_frame(dec.fmt, num_signals)>>]
    /\ UNCHANGED <<msr, sr, seg, hdr, sig, hea, rdr, pair>>

NextDec ==
    \/ \E n \in 1..MaxReq : DecDecodeBuf(n)
    \/ \E p \in {0, dec.pos} : DecReset(p)

SpecDec == InitDec /\ [][NextDec]_vars

\* the frame sizes of a decoder, asked when it is new and between full reads
NextFrame ==
    \/ \E num_signals \in 1..MaxWidth : DecBytesPerFrame(num_signals)
    \/ DecDecodeBuf(MaxReq)

SpecFrame == InitDec /\ [][NextFrame]_vars

\* SampleIter::next on decoder.samples(reader): item is the element yielded
\* (<<>> is None), advances the parity of the number of calls; once done,
\* next() returns None and changes nothing
IterNext ==
    /\ dec.on /\ ~dec.done
    /\ LET r == decode_buf(dec.d, dec.bytes, dec.pos, 1)
       IN  dec' = [dec EXCEPT !.d = r.d, !.pos = r.pos,
                              !.done = (Len(r.out) = 0),
                              !.advances = (dec.advances + 1) % 2,
                              !.item = IF Len(r.out) = 0 THEN <<>> ELSE <<r.out[1]>>]
    /\ UNCHANGED <<msr, sr, seg, hdr, sig, hea, rdr, pair>>

NextIter == IterNext

\* the caller keeps advancing the iterator
SpecIter == InitDec /\ [][NextIter]_vars /\ WF_vars(NextIter)

(***************************************************************************)
(* Single-segment records for the reader harnesses: up to MaxSignals       *)
(* signals in the files "a" and "b", the signals of one file sharing its   *)
(* format, initial value and byte offset; the file bytes are a fixed       *)
(* pattern cut to a chosen length.                                         *)
(***************************************************************************)
ReaderFormats == {0, 8, 16, 212, 310, 311}

Pattern(f, len) ==
    [i \in 1..len |-> IF f = "a" THEN (37 * i + 11) % 256 ELSE (91 * i + 200) % 256]

FileSetups ==
    {[format |-> fmt, initial_value |-> iv] :
        fmt \in ReaderFormats, iv \in {<<>>, <<5>>}} \
    {[format |-> fmt, initial_value |-> <<5>>] : fmt \in ReaderFormats \ {8}}

\* the setups of the second file
SecondSetups == {[format |-> fmt, initial_value |-> <<>>] : fmt \in {0, 16, 311}}

\* the signals laid out by lay (signal -> file) with the setups of the two files
MakeSignals(lay, sa, sb, off) ==
    [i \in 1..Len(lay) |->
        [file_name |-> lay[i],
         format |-> IF lay[i] = "a" THEN sa.format ELSE sb.format,
         initial_value |-> IF lay[i] = "a" THEN sa.initial_value ELSE sb.initial_value,
         byte_offset |-> IF lay[i] = "a" THEN off ELSE <<>>]]

MakeFiles(la, lb) == [f \in {"a", "b"} |-> Pattern(f, IF f = "a" THEN la ELSE lb)]

\* the records of the harnesses: the first signal is in "a"; a file that no
\* signal names is left empty
Records ==
    {rec \in
        {[signals |-> MakeSignals(lay, sa, sb, off), files |-> MakeFiles(la, lb)] :
            lay \in UNION {[1..n -> {"a", "b"}] : n \in 1..MaxSignals},
            sa \in FileSetups, sb \in SecondSetups, off \in {<<>>, <<1>>},
            la \in 0..MaxFileBytes, lb \in {0, MaxFileBytes \div 2}} :
        /\ rec.signals[1].file_name = "a"
        /\ ("b" \notin FileNamesOf(rec.signals)) => rec.files["b"] = <<>>}

NoOp == [op |-> "none", arg |-> 0, kind |-> "none", out |-> <<>>]

(***************************************************************************)
(* MultiSignalReader harness; sought tells whether seek_to_frame was       *)
(* called since the reader was created.                                    *)
(***************************************************************************)
InitMsr ==
    /\ \E rec \in Records :
         \E order \in Orders(FileNamesOf(rec.signals)) :
           msr = [on |-> TRUE, signals |-> rec.signals, files |-> rec.files,
                  order |-> order, r |-> MsrNew(rec.signals, order),
                  sought |-> FALSE, last |-> NoOp, prev |-> NoOp]
    /\ dec = Idle /\ sr = Idle /\ seg = Idle /\ hdr = Idle /\ sig = Idle /\ hea = Idle /\ rdr = Idle /\ pair = Idle

MsrRead ==
    /\ msr.on
    /\ msr.r.current_frame < MaxFrames
    /\ LET res == MsrReadFrame(msr.r, msr.files)
       IN  msr' = [msr EXCEPT !.r = res.r, !.prev = msr.last,
                              !.last = [op |-> "read", arg |-> 0, kind |-> res.kind,
                                        out |-> res.frame]]
    /\ UNCHANGED <<dec, sr, seg, hdr, sig, hea, rdr, pair>>

MsrSeek(k) ==
    /\ msr.on
    /\ LET res == MsrSeekToFrame(msr.r, k)
       IN  msr' = [msr EXCEPT !.r = res.r, !.prev = msr.last, !.sought = TRUE,
                              !.last = [op |-> "seek", arg |-> k,
                                        kind |-> IF res.ok THEN "ok" ELSE "err",
                                        out |-> <<>>]]
    /\ UNCHANGED <<dec, sr, seg, hdr, sig, hea, rdr, pair>>

NextMsr ==
    \/ MsrRead
    \/ \E k \in 0..MaxSeek : MsrSeek(k)

SpecMsr == InitMsr /\ [][NextMsr]_vars

(***************************************************************************)
(* SignalReader harness: the reader of signal idx of a record.             *)
(***************************************************************************)
InitSr ==
    /\ \E rec \in Records :
         \E idx \in 1..Len(rec.signals) :
           sr = [on |-> TRUE, signals |-> rec.signals, files |-> rec.files,
                 idx |-> idx, r |-> SrNew(rec.signals, idx),
                 failed |-> FALSE, last |-> NoOp, prev |-> NoOp]
    /\ dec = Idle /\ msr = Idle /\ seg = Idle /\ hdr = Idle /\ sig = Idle /\ hea = Idle /\ rdr = Idle /\ pair = Idle

\* read_samples_buf with a buffer of n samples; a caller that got Err from a
\* read (failed) does not read again before a seek_to_sample has succeeded (a
\* failed read of an interleaved Format 8 file moves the accumulator, without
\* bound)
SrRead(n) ==
    /\ sr.on
    /\ sr.r.current_sample + n <= MaxFrames
    /\ ~sr.failed
    /\ LET res == SrReadSamplesBuf(sr.r, sr.files, n)
       IN  sr' = [sr EXCEPT !.r = res.r, !.prev = sr.last, !.failed = ~res.ok,
                            !.last = [op |-> "read", arg |-> n,
                                      kind |-> IF res.ok THEN "ok" ELSE "err",
                                      out |-> res.out]]
    /\ UNCHANGED <<dec, msr, seg, hdr, sig, hea, rdr, pair>>

SrSeek(k) ==
    /\ sr.on
    /\ LET res == SrSeekToSample(sr.r, k)
       IN  sr' = [sr EXCEPT !.r = res.r, !.prev = sr.last,
                            !.failed = sr.failed /\ ~res.ok,
                            !.last = [op |-> "seek", arg |-> k,
                                      kind |-> IF res.ok THEN "ok" ELSE "err",
                                      out |-> IF res.ok THEN <<res.ret>> ELSE <<>>]]
    /\ UNCHANGED <<dec, msr, seg, hdr, sig, hea, rdr, pair>>

SrSeekTime(seconds) ==
    /\ sr.on
    /\ LET res == SrSeekToTime(sr.r, seconds)
       IN  sr' = [sr EXCEPT !.r = res.r, !.prev = sr.last,
                            !.last = [op |-> "seek_time", arg |-> seconds,
                                      kind |-> IF res.ok THEN "ok" ELSE "err",
                                      out |-> IF res.ok THEN <<res.ret>> ELSE <<>>]]
    /\ UNCHANGED <<dec, msr, seg, hdr, sig, hea, rdr, pair>>

NextSr ==
    \/ \E n \in 1..MaxReq : SrRead(n)
    \/ \E k \in 0..MaxSeek : SrSeek(k)
    \/ \E seconds \in {0, MaxSeek} : SrSeekTime(seconds)

SpecSr == InitSr /\ [][NextSr]_vars

(***************************************************************************)
(* Multi-segment records.  A SegmentInfo is [record_name, num_samples];    *)
(* the record name "~" is a null segment.  The header of the segment       *)
(* record_name names one format-16 signal in the file record_name, which   *)
(* holds num_samples frames; frame j of the i-th segment (both from 0)     *)
(* has the sample value 10 * (i + 1) + j.  Segment indices are from 0 as   *)
(* in the code; sequences are from 1.                                      *)
(***************************************************************************)
SegmentNames == <<"s0", "s1", "s2", "s3", "s4">>

\* the segments whose header names one format-311 signal
PackedSegmentNames == <<"p0", "p1", "p2", "p3", "p4">>

\* the signal specifications of the header <record_name>.hea
SegmentSignals(record_name) ==
    <<[file_name |-> record_name,
       format |-> IF \E k \in 1..Len(PackedSegmentNames) :
                         PackedSegmentNames[k] = record_name
                  THEN 311 ELSE 16,
       initial_value |-> <<>>, byte_offset |-> <<>>]>>

SegFrameValue(i, j) == 10 * (i + 1) + j

\* the bytes of the signal file of segment i with n frames (little-endian i16)
SegFileBytes(i, n) ==
    [b \in 1..(2 * n) |-> IF b % 2 = 1 THEN SegFrameValue(i, (b - 1) \div 2) ELSE 0]

\* the master headers: up to MaxSegs segments of 1..MaxSegSamples samples
\* each (the record line `rec/0 1` declares no segment)
SegmentLists ==
    UNION {[1..n -> [null : BOOLEAN, num_samples : 1..MaxSegSamples]] : n \in 0..MaxSegs}

SegmentInfos(cfg) ==
    [k \in 1..Len(cfg) |->
        [record_name |-> IF cfg[k].null THEN "~" ELSE SegmentNames[k],
         num_samples |-> cfg[k].num_samples]]

SegmentFiles(cfg) ==
    [f \in {SegmentNames[k] : k \in 1..Len(cfg)} |->
        LET k == CHOOSE k \in 1..Len(cfg) : SegmentNames[k] = f
        IN  IF cfg[k].null THEN <<>> ELSE SegFileBytes(k - 1, cfg[k].num_samples)]

(***************************************************************************)
(* SegmentManager: [segments, states, current_segment].                    *)
(***************************************************************************)
\* SegmentManager::new
SegmentManagerNew(segments) ==
    [segments |-> segments,
     states |-> [k \in 1..Len(segments) |-> "NotLoaded"],
     current_segment |-> 0]

\* SegmentManager::load_segment: ok is Ok/Err, name the loaded header's record
load_segment(m, index) ==
    IF index >= Len(m.segments) THEN [m |-> m, ok |-> FALSE, name |-> "~"]
    ELSE IF m.states[index + 1] = "Loaded"
         THEN [m |-> m, ok |-> TRUE, name |-> m.segments[index + 1].record_name]
    ELSE IF m.states[index + 1] = "Null" THEN [m |-> m, ok |-> FALSE, name |-> "~"]
    ELSE IF m.segments[index + 1].record_name = "~"
         THEN [m |-> [m EXCEPT !.states[index + 1] = "Null"], ok |-> FALSE, name |-> "~"]
    ELSE [m |-> [m EXCEPT !.states[index + 1] = "Loaded"], ok |-> TRUE,
          name |-> m.segments[index + 1].record_name]

\* SegmentManager::current_segment
current_segment_data(m) == load_segment(m, m.current_segment)

\* SegmentManager::current_signals
current_signals(m) ==
    LET data == current_segment_data(m)
    IN  [m |-> data.m, ok |-> data.ok,
         signals |-> IF data.ok THEN SegmentSignals(data.name) ELSE <<>>]

\* SegmentManager::current_index
current_index(m) == m.current_segment

\* SegmentManager::num_segments
num_segments(m) == Len(m.segments)

(***************************************************************************)
(* SegmentReader: [segment_manager, current_reader (an Option),            *)
(* samples_read].                                                          *)
(***************************************************************************)
\* SegmentReader::new
SegmentReaderNew(segments) ==
    [segment_manager |-> SegmentManagerNew(segments),
     current_reader |-> <<>>,
     samples_read |-> 0]

\* SegmentReader::switch_to_segment
switch_to_segment(r, index) ==
    LET loaded == load_segment(r.segment_manager, index)
        sigs == current_signals(loaded.m)
    IN  IF ~loaded.ok
        THEN [r |-> [r EXCEPT !.segment_manager = loaded.m], ok |-> FALSE]
        ELSE IF ~sigs.ok
        THEN [r |-> [r EXCEPT !.segment_manager = sigs.m], ok |-> FALSE]
        ELSE [r |-> [r EXCEPT !.segment_manager = sigs.m,
                              !.current_reader =
                                  <<MsrNew(sigs.signals,
                                           <<sigs.signals[1].file_name>>)>>],
              ok |-> TRUE]

\* SegmentReader::advance_segment: ok is Ok/Err, advanced the returned bool
advance_segment(r) ==
    LET next_index == current_index(r.segment_manager) + 1
        sw == switch_to_segment(r, next_index)
    IN  IF next_index >= num_segments(r.segment_manager)
        THEN [r |-> r, ok |-> TRUE, advanced |-> FALSE]
        ELSE [r |-> sw.r, ok |-> sw.ok, advanced |-> sw.ok]

\* the outcome y of the segment's reader with its state as an Option
SegFromMsr(y) == [r |-> <<y.r>>, kind |-> y.kind, frame |-> y.frame]

\* read_frame: `if let Some(reader) = &mut self.current_reader` and the read
\* of the segment's reader ("eof": no reader, or its frame is empty)
SegReadCurrent(r, files) ==
    IF r.current_reader = <<>>
    THEN [r |-> <<>>, kind |-> "eof", frame |-> <<>>]
    ELSE SegFromMsr(MsrReadFrame(r.current_reader[1], files))

RECURSIVE SegReadLoop(_, _, _)
\* read_frame: `if !self.advance_segment()?`, adv being its outcome
SegAdvanced(adv, files, seen) ==
    IF ~adv.ok THEN [r |-> adv.r, kind |-> "err", frame |-> <<>>]
    ELSE IF ~adv.advanced THEN [r |-> adv.r, kind |-> "none", frame |-> <<>>]
    ELSE SegReadLoop(adv.r, files, seen)

\* read_frame: one iteration of the loop, x being the outcome of the read of
\* the segment's reader
SegIteration(r, x, files, seen) ==
    IF x.kind = "err"
    THEN [r |-> [r EXCEPT !.current_reader = x.r], kind |-> "err", frame |-> <<>>]
    ELSE IF x.kind = "frame"
    THEN [r |-> [r EXCEPT !.current_reader = x.r, !.samples_read = r.samples_read + 1],
          kind |-> "frame", frame |-> x.frame]
    ELSE SegAdvanced(advance_segment([r EXCEPT !.current_reader = x.r]), files,
                     seen \cup {r})

\* the loop of SegmentReader::read_frame; seen are the reader states at the
\* head of the earlier iterations: meeting one of them again, the loop never
\* ends ("hang")
SegReadLoop(r, files, seen) ==
    IF r \in seen
    THEN [r |-> r, kind |-> "hang", frame |-> <<>>]
    ELSE SegIteration(r, SegReadCurrent(r, files), files, seen)

\* SegmentReader::read_frame: kind is "frame" (Some), "none", "err" or "hang"
SegReadFrame(r, files) == SegReadLoop(r, files, {})

RECURSIVE FindSegment(_, _, _, _)
FindSegment(segments, sample, i, cumulative) ==
    IF i >= Len(segments) THEN NoneU
    ELSE IF sample < cumulative + segments[i + 1].num_samples THEN i
    ELSE FindSegment(segments, sample, i + 1, cumulative + segments[i + 1].num_samples)

\* SegmentReader::find_segment_for_sample (NoneU: Err, beyond the end)
find_segment_for_sample(r, sample) ==
    FindSegment(r.segment_manager.segments, sample, 0, 0)

\* SegmentReader::seek_to_sample
SegSeekToSample(r, sample) ==
    LET segment_index == find_segment_for_sample(r, sample)
        segment_start == IF segment_index = 0 THEN 0
                         ELSE r.segment_manager.segments[segment_index].num_samples
        offset_in_segment == sample - segment_start
        sw == switch_to_segment(r, segment_index)
        sk == MsrSeekToFrame(sw.r.current_reader[1], offset_in_segment)
    IN  IF segment_index = NoneU THEN [r |-> r, ok |-> FALSE, ret |-> 0]
        ELSE IF ~sw.ok THEN [r |-> sw.r, ok |-> FALSE, ret |-> 0]
        ELSE IF ~sk.ok
        THEN [r |-> [sw.r EXCEPT !.current_reader = <<sk.r>>], ok |-> FALSE, ret |-> 0]
        ELSE [r |-> [sw.r EXCEPT !.current_reader = <<sk.r>>, !.samples_read = sample],
              ok |-> TRUE, ret |-> sample]

\* SegmentReader::position
SegPosition(r) == r.samples_read

\* SegmentManager::segment_info: an Option
segment_info(m, index) ==
    IF index >= 0 /\ index < Len(m.segments) THEN <<m.segments[index + 1]>> ELSE <<>>

\* the builds of the crate: with overflow checks (debug) or without (release)
Builds == {"debug", "release"}

\* SegmentReader::total_samples: [panic, val].  Without segments the usize
\* subtraction `num_segments() - 1` panics in the debug build and wraps to
\* usize::MAX in the release build, where segment_info is then None
SegTotalSamples(r, build) ==
    LET last_info == segment_info(r.segment_manager, num_segments(r.segment_manager) - 1)
    IN  IF num_segments(r.segment_manager) = 0
        THEN [panic |-> build = "debug", val |-> 0]
        ELSE [panic |-> FALSE,
              val |-> IF last_info = <<>> THEN 0 ELSE last_info[1].num_samples]

\* SegmentReader::current_segment
SegCurrentSegment(r) == current_index(r.segment_manager)

(***************************************************************************)
(* SegmentReader harness: read_frame and seek_to_sample on the reader of a *)
(* multi-segment record.  seeked tells whether a seek was tried, hist      *)
(* holds the frames returned before any seek, reads counts the read_frame  *)
(* calls.                                                                  *)
(***************************************************************************)
InitSeg ==
    /\ \E cfg \in SegmentLists :
         seg = [on |-> TRUE, cfg |-> cfg, files |-> SegmentFiles(cfg),
                r |-> SegmentReaderNew(SegmentInfos(cfg)),
                hist |-> <<>>, reads |-> 0, seeked |-> FALSE,
                last |-> NoOp, prev |-> NoOp]
    /\ dec = Idle /\ msr = Idle /\ sr = Idle /\ hdr = Idle /\ sig = Idle /\ hea = Idle /\ rdr = Idle /\ pair = Idle

\* one read_frame call; nothing follows a call that never returns
SegRead ==
    /\ seg.on
    /\ seg.reads < MaxReads
    /\ seg.last.kind # "hang"
    /\ LET res == SegReadFrame(seg.r, seg.files)
       IN  seg' = [seg EXCEPT !.r = res.r, !.reads = seg.reads + 1,
                              !.hist = IF res.kind = "frame" /\ ~seg.seeked
                                       THEN Append(seg.hist, res.frame) ELSE seg.hist,
                              !.prev = seg.last,
                              !.last = [op |-> "read", arg |-> 0, kind |-> res.kind,
                                        out |-> res.frame]]
    /\ UNCHANGED <<dec, msr, sr, hdr, sig, hea, rdr, pair>>

SegSeek(s) ==
    /\ seg.on
    /\ seg.last.kind # "hang"
    /\ LET res == SegSeekToSample(seg.r, s)
       IN  seg' = [seg EXCEPT !.r = res.r, !.seeked = TRUE,
                              !.prev = seg.last,
                              !.last = [op |-> "seek", arg |-> s,
                                        kind |-> IF res.ok THEN "ok" ELSE "err",
                                        out |-> IF res.ok THEN <<res.ret>> ELSE <<>>]]
    /\ UNCHANGED <<dec, msr, sr, hdr, sig, hea, rdr, pair>>

NextSeg ==
    \/ SegRead
    \/ \E s \in 0..MaxSeekSample : SegSeek(s)

SpecSeg == InitSeg /\ [][NextSeg]_vars

(***************************************************************************)
(* Record line of a header.  A field is a sequence of characters (strings  *)
(* of length 1), a line the sequence of its whitespace-separated fields.   *)
(* Numbers are written here with the characters 0-9 + -; an f64 is         *)
(* modelled by its integer value.                                          *)
(***************************************************************************)
Digits == <<"0", "1", "2", "3", "4", "5", "6", "7", "8", "9">>

IsDigit(c) == \E d \in 1..10 : Digits[d] = c

DigitValue(c) == (CHOOSE d \in 1..10 : Digits[d] = c) - 1

IsAsciiAlphanumeric(c) == IsDigit(c) \/ c \in {"r", "e", "c", "x"}

RECURSIVE DigitsValue(_)
DigitsValue(t) ==
    IF t = <<>> THEN 0 ELSE 10 * DigitsValue(SubSeq(t, 1, Len(t) - 1)) + DigitValue(t[Len(t)])

AllDigits(t) == t # <<>> /\ \A k \in 1..Len(t) : IsDigit(t[k])

\* str::parse::<usize> (and u64): an optional "+", then digits
ParseUnsigned(t) ==
    LET body == IF t # <<>> /\ t[1] = "+" THEN Tail(t) ELSE t
    IN  IF AllDigits(body) THEN [ok |-> TRUE, v |-> DigitsValue(body)]
        ELSE [ok |-> FALSE, v |-> 0]

\* str::parse::<f64> of a field written with 0-9 + - / ( ) : x
ParseF64(t) ==
    LET signed == t # <<>> /\ t[1] \in {"+", "-"}
        body == IF signed THEN Tail(t) ELSE t
    IN  IF AllDigits(body)
        THEN [ok |-> TRUE,
              v |-> IF signed /\ t[1] = "-" THEN -DigitsValue(body) ELSE DigitsValue(body)]
        ELSE [ok |-> FALSE, v |-> 0]

contains(t, c) == \E k \in 1..Len(t) : t[k] = c

\* str::find: the index (from 0) of the first c, NoneU if there is none
find(t, c) ==
    IF contains(t, c) THEN (CHOOSE k \in 1..Len(t) : t[k] = c /\ \A j \in 1..(k - 1) : t[j] # c) - 1
    ELSE NoneU

\* field.matches(c).count()
matches_count(t, c) == Cardinality({k \in 1..Len(t) : t[k] = c})

\* str::split_once: <<>> is None, <<before, after>> is Some
split_once(t, c) ==
    IF contains(t, c)
    THEN <<SubSeq(t, 1, find(t, c)), SubSeq(t, find(t, c) + 2, Len(t))>>
    ELSE <<>>

\* chrono's %H:%M:%S and %d/%m/%Y on fields of two-digit parts (four for the
\* year): the parts of t between the separators c
TwoDigits(t, from) == AllDigits(SubSeq(t, from, from + 1)) /\ Len(t) >= from + 1

\* NaiveTime::parse_from_str(s, "%H:%M:%S") for fields written HH:MM:SS; the
\* second 60 is accepted (a leap second)
parse_base_time(t) ==
    IF /\ Len(t) = 8 /\ t[3] = ":" /\ t[6] = ":"
       /\ TwoDigits(t, 1) /\ TwoDigits(t, 4) /\ TwoDigits(t, 7)
       /\ DigitsValue(SubSeq(t, 1, 2)) < 24
       /\ DigitsValue(SubSeq(t, 4, 5)) < 60
       /\ DigitsValue(SubSeq(t, 7, 8)) <= 60
    THEN [ok |-> TRUE, v |-> <<t>>]
    ELSE [ok |-> FALSE, v |-> <<>>]

\* NaiveDate::parse_from_str(s, "%d/%m/%Y") for fields written DD/MM/YYYY with
\* a day that every month has
parse_base_date(t) ==
    IF /\ Len(t) = 10 /\ t[3] = "/" /\ t[6] = "/"
       /\ TwoDigits(t, 1) /\ TwoDigits(t, 4) /\ AllDigits(SubSeq(t, 7, 10))
       /\ DigitsValue(SubSeq(t, 1, 2)) \in 1..28
       /\ DigitsValue(SubSeq(t, 4, 5)) \in 1..12
    THEN [ok |-> TRUE, v |-> <<t>>]
    ELSE [ok |-> FALSE, v |-> <<>>]

(***************************************************************************)
(* Metadata::from_record_line.  Results are records with ok (Ok, or        *)
(* Err(InvalidHeader): the parser has no other error); Options are <<>>    *)
(* and <<v>>.                                                              *)
(***************************************************************************)
DEFAULT_SAMPLING_FREQUENCY == 250

\* ParseState, in its derived order
ParseStates == <<"Start", "AfterFrequency", "AfterNumSamples", "AfterTime", "AfterDate">>

StateRank(st) == CHOOSE k \in 1..Len(ParseStates) : ParseStates[k] = st

HdrErr == [ok |-> FALSE]

\* a parser that panics (a slice with begin > end) returns to no caller
HdrPanic == [ok |-> FALSE, panic |-> TRUE]

Panicked(res) == "panic" \in DOMAIN res

\* `?` on the outcome res of a callee that did not return Ok
ErrOf(res) == IF Panicked(res) THEN HdrPanic ELSE HdrErr

\* Metadata::parse_record_name
parse_record_name(field) ==
    LET sp == split_once(field, "/")
        name == IF sp = <<>> THEN field ELSE sp[1]
        parsed_segments == IF sp = <<>> THEN [ok |-> TRUE, v |-> 0] ELSE ParseUnsigned(sp[2])
    IN  IF ~parsed_segments.ok THEN HdrErr
        ELSE IF name = <<>> THEN HdrErr
        ELSE IF ~(\A k \in 1..Len(name) : IsAsciiAlphanumeric(name[k]) \/ name[k] = "_")
        THEN HdrErr
        ELSE [ok |-> TRUE, name |-> name,
              num_segments |-> IF sp = <<>> THEN <<>> ELSE <<parsed_segments.v>>]

\* (variant) the kind of a field decided by its shape alone, in any order
detect_field_type_any_order(field, state) ==
    IF contains(field, ":") THEN [ok |-> TRUE, ty |-> "Time"]
    ELSE IF matches_count(field, "/") = 2 THEN [ok |-> TRUE, ty |-> "Date"]
    ELSE IF contains(field, "/") \/ contains(field, "(") THEN [ok |-> TRUE, ty |-> "Frequency"]
    ELSE IF state = "Start" THEN [ok |-> TRUE, ty |-> "Frequency"]
    ELSE [ok |-> TRUE, ty |-> "NumSamples"]

\* Metadata::detect_field_type
detect_field_type(field, state) ==
    IF contains(field, ":")
    THEN (IF StateRank(state) >= StateRank("AfterTime") THEN HdrErr
          ELSE [ok |-> TRUE, ty |-> "Time"])
    ELSE IF matches_count(field, "/") = 2
    THEN (IF StateRank(state) >= StateRank("AfterDate") THEN HdrErr
          ELSE [ok |-> TRUE, ty |-> "Date"])
    ELSE IF contains(field, "/") \/ contains(field, "(")
    THEN (IF StateRank(state) >= StateRank("AfterFrequency") THEN HdrErr
          ELSE [ok |-> TRUE, ty |-> "Frequency"])
    ELSE IF state = "Start" THEN [ok |-> TRUE, ty |-> "Frequency"]
    ELSE IF state = "AfterFrequency" THEN [ok |-> TRUE, ty |-> "NumSamples"]
    ELSE HdrErr

\* Metadata::parse_counter_frequency
parse_counter_frequency(field) ==
    LET paren_start == find(field, "(")
        paren_end == find(field, ")")
        counter_freq == ParseF64(IF paren_start = NoneU THEN field
                                 ELSE SubSeq(field, 1, paren_start))
        base_counter == ParseF64(SubSeq(field, paren_start + 2, paren_end))
    IN  IF paren_start = NoneU
        THEN (IF counter_freq.ok
              THEN [ok |-> TRUE, counter_frequency |-> <<counter_freq.v>>,
                    base_counter |-> <<>>]
              ELSE HdrErr)
        ELSE IF paren_end = NoneU THEN HdrErr
        ELSE IF ~counter_freq.ok THEN HdrErr
        ELSE IF ~base_counter.ok THEN HdrErr
        ELSE [ok |-> TRUE, counter_frequency |-> <<counter_freq.v>>,
              base_counter |-> <<base_counter.v>>]

\* Metadata::parse_frequency_field (of Some(field))
parse_frequency_field(field) ==
    LET sp == split_once(field, "/")
        sampling_frequency == ParseF64(IF sp = <<>> THEN field ELSE sp[1])
        counter == IF sp = <<>>
                   THEN [ok |-> TRUE, counter_frequency |-> <<>>, base_counter |-> <<>>]
                   ELSE parse_counter_frequency(sp[2])
    IN  IF ~sampling_frequency.ok THEN HdrErr
        ELSE IF ~counter.ok THEN HdrErr
        ELSE [ok |-> TRUE, sampling_frequency |-> sampling_frequency.v,
              counter_frequency |-> counter.counter_frequency,
              base_counter |-> counter.base_counter]

\* parse_optional_fields: the body of `for field in fields` on the fields
\* found so far (o) in the state o.state
OptionalField(o, field) ==
    LET ft == detect_field_type(field, o.state)
        fr == parse_frequency_field(field)
        ns == ParseUnsigned(field)
        tm == parse_base_time(field)
        dt == parse_base_date(field)
    IN  IF ~ft.ok THEN HdrErr
        ELSE CASE ft.ty = "Frequency" ->
                    IF ~fr.ok THEN HdrErr
                    ELSE [o EXCEPT !.sampling_frequency = fr.sampling_frequency,
                                   !.counter_frequency = fr.counter_frequency,
                                   !.base_counter = fr.base_counter,
                                   !.state = "AfterFrequency"]
               [] ft.ty = "NumSamples" ->
                    IF ~ns.ok THEN HdrErr
                    ELSE [o EXCEPT !.num_samples = <<ns.v>>, !.state = "AfterNumSamples"]
               [] ft.ty = "Time" ->
                    IF ~tm.ok THEN HdrErr
                    ELSE [o EXCEPT !.base_time = tm.v, !.state = "AfterTime"]
               [] ft.ty = "Date" ->
                    IF ~dt.ok THEN HdrErr
                    ELSE [o EXCEPT !.base_date = dt.v, !.state = "AfterDate"]

RECURSIVE OptionalFieldsLoop(_, _)
OptionalFieldsLoop(o, fields) ==
    IF ~o.ok \/ fields = <<>> THEN o
    ELSE OptionalFieldsLoop(OptionalField(o, Head(fields)), Tail(fields))

\* Metadata::parse_optional_fields
parse_optional_fields(fields) ==
    OptionalFieldsLoop(
        [ok |-> TRUE, state |-> "Start",
         sampling_frequency |-> DEFAULT_SAMPLING_FREQUENCY,
         counter_frequency |-> <<>>, base_counter |-> <<>>, num_samples |-> <<>>,
         base_time |-> <<>>, base_date |-> <<>>],
        fields)

\* Metadata::from_record_line on the fields of the trimmed line
from_record_line(line) ==
    LET rn == parse_record_name(line[1])
        num_signals == ParseUnsigned(line[2])
        optional_fields == parse_optional_fields(SubSeq(line, 3, Len(line)))
    IN  IF line = <<>> THEN HdrErr
        ELSE IF ~rn.ok THEN HdrErr
        ELSE IF Len(line) < 2 THEN HdrErr
        ELSE IF ~num_signals.ok THEN HdrErr
        ELSE IF ~optional_fields.ok THEN HdrErr
        ELSE [ok |-> TRUE, name |-> rn.name, num_segments |-> rn.num_segments,
              num_signals |-> num_signals.v,
              sampling_frequency |-> optional_fields.sampling_frequency,
              counter_frequency |-> optional_fields.counter_frequency,
              base_counter |-> optional_fields.base_counter,
              num_samples |-> optional_fields.num_samples,
              base_time |-> optional_fields.base_time,
              base_date |-> optional_fields.base_date]

(***************************************************************************)
(* Record-line harness: from_record_line is applied to a line made of a    *)
(* record-name field, at most one signal-count field and up to MaxFields   *)
(* optional fields.                                                        *)
(***************************************************************************)
\* `rec`, `rec/0`, `rec/2`, `rec/`, `rec/-1`, `/2`, `r-c`, `x_1/1`
RecordNameFields ==
    {<<"r", "e", "c">>, <<"r", "e", "c", "/", "0">>,
     <<"r", "e", "c", "/", "2">>, <<"r", "e", "c", "/">>,
     <<"r", "e", "c", "/", "-", "1">>, <<"/", "2">>, <<"r", "-", "c">>,
     <<"x", "_", "1", "/", "1">>}

\* `0`, `2`, `+1`, `-1`, `x`
NumSignalsFields ==
    {<<"0">>, <<"2">>, <<"+", "1">>, <<"-", "1">>, <<"x">>}

\* frequencies (plain, with counter, with base counter), sample counts, times
\* and dates, well and ill formed
OptionalFields ==
    {<<"-", "1", "0", "0">>, <<"0">>, <<"1", "0", "0">>,
     <<"3", "6", "0", "/", "1", "0">>, <<"3", "6", "0", "/", "0">>,
     <<"3", "6", "0", "/", "-", "5">>,
     <<"3", "6", "0", "/", "1", "0", "(", "5", ")">>,
     <<"3", "6", "0", "/", "0", "(", "5", ")">>,
     <<"3", "6", "0", "/", "1", "0", "(", "5">>,
     <<"1", "2", ":", "3", "0", ":", "4", "5">>,
     <<"2", "5", ":", "0", "0", ":", "0", "0">>,
     <<"1", "2", ":", "3", "0", ":", "6", "0">>,
     <<"0", "1", "/", "0", "2", "/", "2", "0", "0", "0">>,
     <<"3", "2", "/", "0", "1", "/", "2", "0", "0", "0">>}

\* every record name and signal count with up to MaxTailFields optional
\* fields, and `rec 2`, `rec 0` with up to MaxFields of them
RecordLines ==
    {<<>>} \cup {<<n>> : n \in RecordNameFields} \cup
    {<<n, g>> \o rest : n \in RecordNameFields, g \in NumSignalsFields,
                        rest \in SeqsUpTo(OptionalFields, MaxTailFields)} \cup
    {<<<<"r", "e", "c">>, g>> \o rest : g \in {<<"0">>, <<"2">>},
                                       rest \in SeqsUpTo(OptionalFields, MaxFields)}

InitHdr ==
    /\ \E line \in RecordLines : hdr = [on |-> TRUE, line |-> line, done |-> FALSE]
    /\ dec = Idle /\ msr = Idle /\ sr = Idle /\ seg = Idle /\ sig = Idle /\ hea = Idle /\ rdr = Idle /\ pair = Idle

HdrParse ==
    /\ hdr.on /\ ~hdr.done
    /\ hdr' = [on |-> TRUE, line |-> hdr.line, done |-> TRUE,
               res |-> from_record_line(hdr.line)]
    /\ UNCHANGED <<dec, msr, sr, seg, sig, hea, rdr, pair>>

NextHdr == HdrParse

SpecHdr == InitHdr /\ [][NextHdr]_vars

(***************************************************************************)
(* Signal specification line of a header.  Fields are written with the     *)
(* characters 0-9 + - / ( ) : x and letters that form no number; numbers    *)
(* are integers (an f64 is modelled by its integer value).                 *)
(***************************************************************************)
\* str::parse of a signed integer type with the range lo..hi
ParseSigned(t, lo, hi) ==
    LET p == ParseF64(t)
    IN  IF p.ok /\ p.v >= lo /\ p.v <= hi THEN p ELSE [ok |-> FALSE, v |-> 0]

\* str::parse of an unsigned integer type with the maximum hi
ParseUnsignedUpTo(t, hi) ==
    LET p == ParseUnsigned(t)
    IN  IF p.ok /\ p.v <= hi THEN p ELSE [ok |-> FALSE, v |-> 0]

ParseU8(t) == ParseUnsignedUpTo(t, 255)

ParseI16(t) == ParseSigned(t, -32768, 32767)

ParseI32(t) == ParseSigned(t, I32Min, I32Max)

\* the format codes SignalFormat::try_from accepts
FormatCodes == Formats \cup {508, 516, 524}

\* SignalInfo::parse_format_field: `format[xsamples_per_frame][:skew][+byte_offset]`
parse_format_field(field) ==
    LET plus_pos == find(field, "+")
        byte_offset == ParseUnsigned(SubSeq(field, plus_pos + 2, Len(field)))
        s1 == IF plus_pos = NoneU THEN field ELSE SubSeq(field, 1, plus_pos)
        colon_pos == find(s1, ":")
        skew == ParseUnsigned(SubSeq(s1, colon_pos + 2, Len(s1)))
        s2 == IF colon_pos = NoneU THEN s1 ELSE SubSeq(s1, 1, colon_pos)
        x_pos == find(s2, "x")
        spf == ParseUnsigned(SubSeq(s2, x_pos + 2, Len(s2)))
        s3 == IF x_pos = NoneU THEN s2 ELSE SubSeq(s2, 1, x_pos)
        format_code == ParseUnsignedUpTo(s3, 65535)
    IN  IF plus_pos # NoneU /\ ~byte_offset.ok THEN HdrErr
        ELSE IF colon_pos # NoneU /\ ~skew.ok THEN HdrErr
        ELSE IF x_pos # NoneU /\ ~spf.ok THEN HdrErr
        ELSE IF x_pos # NoneU /\ spf.v = 0 THEN HdrErr
        ELSE IF ~format_code.ok THEN HdrErr
        ELSE IF format_code.v \notin FormatCodes THEN HdrErr
        ELSE [ok |-> TRUE, format |-> format_code.v,
              samples_per_frame |-> IF x_pos = NoneU THEN <<>> ELSE <<spf.v>>,
              skew |-> IF colon_pos = NoneU THEN <<>> ELSE <<skew.v>>,
              byte_offset |-> IF plus_pos = NoneU THEN <<>> ELSE <<byte_offset.v>>]

\* SignalInfo::parse_gain_field: `gain[(baseline)][/units]`; a `)` before the
\* `(` makes the slice `gain_part[paren_start + 1..paren_end]` panic
parse_gain_field(field) ==
    LET slash_pos == find(field, "/")
        units_str == SubSeq(field, slash_pos + 2, Len(field))
        g1 == IF slash_pos = NoneU THEN field ELSE SubSeq(field, 1, slash_pos)
        paren_start == find(g1, "(")
        paren_end == find(g1, ")")
        baseline == ParseI32(SubSeq(g1, paren_start + 2, paren_end))
        g2 == IF paren_start = NoneU THEN g1 ELSE SubSeq(g1, 1, paren_start)
        gain == ParseF64(g2)
    IN  IF slash_pos # NoneU /\ units_str = <<>> THEN HdrErr
        ELSE IF paren_start # NoneU /\ paren_end = NoneU THEN HdrErr
        ELSE IF paren_start # NoneU /\ paren_end < paren_start THEN HdrPanic
        ELSE IF paren_start # NoneU /\ ~baseline.ok THEN HdrErr
        ELSE IF g2 = <<>> THEN HdrErr
        ELSE IF ~gain.ok THEN HdrErr
        ELSE IF gain.v <= 0 THEN HdrErr
        ELSE [ok |-> TRUE, adc_gain |-> <<gain.v>>,
              baseline |-> IF paren_start = NoneU THEN <<>> ELSE <<baseline.v>>,
              units |-> IF slash_pos = NoneU THEN <<>> ELSE <<units_str>>]

\* (variant) a field that is not the number expected starts the description
signal_detect_field_type_lenient(field, state) ==
    CASE state = "Start" ->
           IF contains(field, "/") \/ contains(field, "(")
           THEN IF Panicked(parse_gain_field(field)) THEN HdrPanic
                ELSE [ok |-> TRUE,
                      ty |-> IF parse_gain_field(field).ok THEN "Gain"
                             ELSE "Description"]
           ELSE IF ParseF64(field).ok
           THEN [ok |-> TRUE,
                 ty |-> IF ParseF64(field).v > 0 THEN "Gain" ELSE "BlockSize"]
           ELSE [ok |-> TRUE, ty |-> "Description"]
      [] state = "AfterGain" ->
           [ok |-> TRUE, ty |-> IF ParseU8(field).ok THEN "Resolution" ELSE "Description"]
      [] state = "AfterResolution" ->
           [ok |-> TRUE, ty |-> IF ParseI32(field).ok THEN "AdcZero" ELSE "Description"]
      [] state = "AfterZero" ->
           [ok |-> TRUE, ty |-> IF ParseI32(field).ok THEN "InitialValue" ELSE "Description"]
      [] state = "AfterInitial" ->
           [ok |-> TRUE, ty |-> IF ParseI16(field).ok THEN "Checksum" ELSE "Description"]
      [] state = "AfterChecksum" ->
           [ok |-> TRUE, ty |-> IF ParseI32(field).ok THEN "BlockSize" ELSE "Description"]
      [] OTHER -> [ok |-> TRUE, ty |-> "Description"]

\* SignalInfo::detect_field_type
signal_detect_field_type(field, state) ==
    CASE state = "Start" ->
           IF contains(field, "/") \/ contains(field, "(")
           THEN IF Panicked(parse_gain_field(field)) THEN HdrPanic
                ELSE [ok |-> TRUE,
                      ty |-> IF parse_gain_field(field).ok THEN "Gain"
                             ELSE "Description"]
           ELSE IF ParseF64(field).ok
           THEN [ok |-> TRUE,
                 ty |-> IF ParseF64(field).v > 0 THEN "Gain"
                        ELSE IF ParseI32(field).ok THEN "BlockSize"
                        ELSE "Description"]
           ELSE IF ParseI32(field).ok THEN [ok |-> TRUE, ty |-> "BlockSize"]
           ELSE [ok |-> TRUE, ty |-> "Description"]
      [] state = "AfterGain" ->
           IF ParseU8(field).ok THEN [ok |-> TRUE, ty |-> "Resolution"] ELSE HdrErr
      [] state = "AfterResolution" ->
           IF ParseI32(field).ok THEN [ok |-> TRUE, ty |-> "AdcZero"] ELSE HdrErr
      [] state = "AfterZero" ->
           IF ParseI32(field).ok THEN [ok |-> TRUE, ty |-> "InitialValue"] ELSE HdrErr
      [] state = "AfterInitial" ->
           IF ParseI16(field).ok THEN [ok |-> TRUE, ty |-> "Checksum"] ELSE HdrErr
      [] state = "AfterChecksum" ->
           IF ParseI32(field).ok THEN [ok |-> TRUE, ty |-> "BlockSize"] ELSE HdrErr
      [] OTHER -> [ok |-> TRUE, ty |-> "Description"]

\* (variant) only the first of the remaining fields is kept
join_description_first_only(fields) == fields[1]

RECURSIVE join_description(_)
\* fields.join(" ")
join_description(fields) ==
    IF Len(fields) = 1 THEN fields[1]
    ELSE fields[1] \o <<" ">> \o join_description(Tail(fields))

\* SignalInfo::parse_optional_fields: the body of the loop for the field at
\* field_idx (from 1), on the fields found so far (o) in the state o.state;
\* o.stop is set by `break`
SignalOptionalField(o, fields, field_idx) ==
    LET field == fields[field_idx]
        ft == signal_detect_field_type(field, o.state)
        gn == parse_gain_field(field)
    IN  IF ~ft.ok THEN ErrOf(ft)
        ELSE CASE ft.ty = "Gain" ->
                    IF ~gn.ok THEN HdrErr
                    ELSE [o EXCEPT !.adc_gain = gn.adc_gain, !.baseline = gn.baseline,
                                   !.units = gn.units, !.state = "AfterGain"]
               [] ft.ty = "Resolution" ->
                    [o EXCEPT !.adc_resolution = <<ParseU8(field).v>>,
                              !.state = "AfterResolution"]
               [] ft.ty = "AdcZero" ->
                    [o EXCEPT !.adc_zero = <<ParseI32(field).v>>, !.state = "AfterZero"]
               [] ft.ty = "InitialValue" ->
                    [o EXCEPT !.initial_value = <<ParseI32(field).v>>,
                              !.state = "AfterInitial"]
               [] ft.ty = "Checksum" ->
                    [o EXCEPT !.checksum = <<ParseI16(field).v>>, !.state = "AfterChecksum"]
               [] ft.ty = "BlockSize" ->
                    [o EXCEPT !.block_size = <<ParseI32(field).v>>,
                              !.state = "AfterBlockSize"]
               [] OTHER ->
                    [o EXCEPT !.description =
                                  <<join_description(SubSeq(fields, field_idx, Len(fields)))>>,
                              !.stop = TRUE]

RECURSIVE SignalOptionalFieldsLoop(_, _, _)
SignalOptionalFieldsLoop(o, fields, field_idx) ==
    IF ~o.ok \/ field_idx > Len(fields) THEN o
    ELSE IF o.stop THEN o
    ELSE SignalOptionalFieldsLoop(SignalOptionalField(o, fields, field_idx), fields,
                                  field_idx + 1)

\* SignalInfo::parse_optional_fields
signal_parse_optional_fields(fields) ==
    SignalOptionalFieldsLoop(
        [ok |-> TRUE, state |-> "Start", stop |-> FALSE,
         adc_gain |-> <<>>, baseline |-> <<>>, units |-> <<>>, adc_resolution |-> <<>>,
         adc_zero |-> <<>>, initial_value |-> <<>>, checksum |-> <<>>,
         block_size |-> <<>>, description |-> <<>>],
        fields, 1)

\* SignalInfo::from_signal_line on the fields of the trimmed line
from_signal_line(line) ==
    LET ff == parse_format_field(line[2])
        optional_fields == signal_parse_optional_fields(SubSeq(line, 3, Len(line)))
    IN  IF Len(line) < 2 THEN HdrErr
        ELSE IF ~ff.ok THEN HdrErr
        ELSE IF ~optional_fields.ok THEN ErrOf(optional_fields)
        ELSE [ok |-> TRUE, file_name |-> line[1], format |-> ff.format,
              samples_per_frame |-> ff.samples_per_frame, skew |-> ff.skew,
              byte_offset |-> ff.byte_offset,
              adc_gain |-> optional_fields.adc_gain,
              baseline |-> optional_fields.baseline,
              units |-> optional_fields.units,
              adc_resolution |-> optional_fields.adc_resolution,
              adc_zero |-> optional_fields.adc_zero,
              initial_value |-> optional_fields.initial_value,
              checksum |-> optional_fields.checksum,
              block_size |-> optional_fields.block_size,
              description |-> optional_fields.description]

(***************************************************************************)
(* Signal-line harness: from_signal_line is applied to a line made of a    *)
(* file name, a format field, the first fields of a well-formed line       *)
(* `200(5)/x 12 0 -5 100 0` and then up to MaxSigTail fields of any shape. *)
(***************************************************************************)
\* `16`, `8x2:1+4`, `212`, `16x0`, `17`, `x`
FormatFields ==
    {<<"1", "6">>, <<"8", "x", "2", ":", "1", "+", "4">>, <<"2", "1", "2">>,
     <<"1", "6", "x", "0">>, <<"1", "7">>, <<"x">>}

WellFormedFields ==
    <<<<"2", "0", "0", "(", "5", ")", "/", "x">>, <<"1", "2">>, <<"0">>, <<"-", "5">>,
      <<"1", "0", "0">>, <<"0">>>>

\* `ECG`, `x`, `200`, `12`, `0`, `-5`, `300`, `40000`, `200/`, `2(x)`, `2(5)`,
\* `2)(`
SignalTokens ==
    {<<"E", "C", "G">>, <<"x">>, <<"2", "0", "0">>, <<"1", "2">>, <<"0">>, <<"-", "5">>,
     <<"3", "0", "0">>, <<"4", "0", "0", "0", "0">>, <<"2", "0", "0", "/">>,
     <<"2", "(", "x", ")">>, <<"2", "(", "5", ")">>, <<"2", ")", "(">>}

SignalLines ==
    {<<>>, <<<<"d">>>>} \cup
    {<<<<"d">>, ff>> \o SubSeq(WellFormedFields, 1, k) \o rest :
        ff \in FormatFields, k \in 0..Len(WellFormedFields),
        rest \in SeqsUpTo(SignalTokens, MaxSigTail)}

InitSig ==
    /\ \E line \in SignalLines : sig = [on |-> TRUE, line |-> line, done |-> FALSE]
    /\ dec = Idle /\ msr = Idle /\ sr = Idle /\ seg = Idle /\ hdr = Idle /\ hea = Idle /\ rdr = Idle /\ pair = Idle

SigParse ==
    /\ sig.on /\ ~sig.done
    /\ sig' = [on |-> TRUE, line |-> sig.line, done |-> TRUE,
               res |-> from_signal_line(sig.line)]
    /\ UNCHANGED <<dec, msr, sr, seg, hdr, hea, rdr, pair>>

NextSig == SigParse

SpecSig == InitSig /\ [][NextSig]_vars

(***************************************************************************)
(* Header::from_lines.  A line of a header file is [kind, fields]: kind is *)
(* "blank" (empty after trim), "comment" (starts with `#`) or "text", and  *)
(* fields are the whitespace-separated fields of a text line.              *)
(***************************************************************************)
\* SegmentInfo::is_valid_record_name
is_valid_record_name(name) ==
    \/ name = <<"~">>
    \/ \A k \in 1..Len(name) : IsAsciiAlphanumeric(name[k]) \/ name[k] = "_"

\* SegmentInfo::from_segment_line on the fields of the trimmed line
from_segment_line(line) ==
    LET num_samples == ParseUnsigned(line[2])
    IN  IF line = <<>> THEN HdrErr
        ELSE IF ~is_valid_record_name(line[1]) THEN HdrErr
        ELSE IF Len(line) < 2 THEN HdrErr
        ELSE IF ~num_samples.ok THEN HdrErr
        ELSE IF Len(line) > 2 THEN HdrErr
        ELSE [ok |-> TRUE, record_name |-> line[1], num_samples |-> num_samples.v]

RECURSIVE SpecificationsLoop(_, _, _, _, _)
\* one turn of the loop on a specification line, parsed being its parse
SpecificationsTurn(lines, line_idx, count, multi, specs, parsed) ==
    IF ~parsed.ok THEN ErrOf(parsed)
    ELSE SpecificationsLoop(lines, line_idx + 1, count, multi, Append(specs, parsed))

\* the `while line_idx < lines.len() && specs.len() < count` loops of
\* from_lines (line_idx from 1); multi selects from_segment_line
SpecificationsLoop(lines, line_idx, count, multi, specs) ==
    IF line_idx > Len(lines) \/ Len(specs) >= count
    THEN [ok |-> TRUE, specs |-> specs, line_idx |-> line_idx]
    ELSE IF lines[line_idx].kind # "text"
    THEN SpecificationsLoop(lines, line_idx + 1, count, multi, specs)
    ELSE SpecificationsTurn(lines, line_idx, count, multi, specs,
                            IF multi THEN from_segment_line(lines[line_idx].fields)
                            ELSE from_signal_line(lines[line_idx].fields))

\* the trailing comment lines, from line_idx on
InfoStrings(lines, line_idx) ==
    LET IsComment(l) == l.kind = "comment"
    IN  SelectSeq(SubSeq(lines, line_idx, Len(lines)), IsComment)

\* a variant that accepts a header with fewer specification lines than declared
specs_shortfall_ignored(specs, count) == FALSE

\* the `if specs.len() < count` checks that follow the two loops of from_lines
specs_shortfall(specs, count) == Len(specs) < count

\* the end of from_lines: the check of the count, the info strings and the
\* header built
HeaderBuilt(lines, metadata, is_multi_segment, count, parsed) ==
    IF ~parsed.ok THEN ErrOf(parsed)
    ELSE IF specs_shortfall(parsed.specs, count) THEN HdrErr
    ELSE [ok |-> TRUE, metadata |-> metadata,
          specifications |->
              IF is_multi_segment
              THEN [kind |-> "MultiSegment", segments |-> parsed.specs]
              ELSE [kind |-> "SingleSegment", signals |-> parsed.specs],
          info_strings |-> InfoStrings(lines, parsed.line_idx)]

\* from_lines after the record line: count is num_segments when the record
\* line has it and num_signals otherwise
HeaderSpecifications(lines, line_idx, metadata, is_multi_segment, count) ==
    HeaderBuilt(lines, metadata, is_multi_segment, count,
                SpecificationsLoop(lines, line_idx, count, is_multi_segment, <<>>))

HeaderAfterRecordLine(lines, record_line_idx, metadata) ==
    IF ~metadata.ok THEN HdrErr
    ELSE HeaderSpecifications(lines, record_line_idx + 1, metadata,
                              metadata.num_segments # <<>>,
                              IF metadata.num_segments # <<>>
                              THEN metadata.num_segments[1] ELSE metadata.num_signals)

\* the index of the record line: the first line that is neither blank nor a
\* comment, 0 when there is none
RecordLineIdx(lines) ==
    LET text == {i \in 1..Len(lines) : lines[i].kind = "text"}
    IN  IF text = {} THEN 0 ELSE CHOOSE i \in text : \A j \in text : i <= j

\* Header::from_lines
from_lines(lines) ==
    IF RecordLineIdx(lines) = 0 THEN HdrErr
    ELSE HeaderAfterRecordLine(lines, RecordLineIdx(lines),
                               from_record_line(lines[RecordLineIdx(lines)].fields))

(***************************************************************************)
(* Header harness: from_lines is applied to a header made of an optional   *)
(* leading comment, a record line and up to MaxSpecLines further lines.    *)
(***************************************************************************)
TextLine(fields) == [kind |-> "text", fields |-> fields]

\* `rec 0`, `rec 1`, `rec 2 360`, `rec/0 2`, `rec/1 2`, `rec/2 1`, `r-c 1`
HeaderRecordLines ==
    {TextLine(<<<<"r", "e", "c">>, <<"0">>>>),
     TextLine(<<<<"r", "e", "c">>, <<"1">>>>),
     TextLine(<<<<"r", "e", "c">>, <<"2">>, <<"3", "6", "0">>>>),
     TextLine(<<<<"r", "e", "c", "/", "0">>, <<"2">>>>),
     TextLine(<<<<"r", "e", "c", "/", "1">>, <<"2">>>>),
     TextLine(<<<<"r", "e", "c", "/", "2">>, <<"1">>>>),
     TextLine(<<<<"r", "-", "c">>, <<"1">>>>)}

\* a blank line, a comment, `x 16` (a signal line and a segment line),
\* `x 8 200` (a signal line only), `rec 2` and `~ 1` (segment lines only),
\* `x 16 200 x` (neither)
HeaderBodyLines ==
    {[kind |-> "blank", fields |-> <<>>], [kind |-> "comment", fields |-> <<>>],
     TextLine(<<<<"x">>, <<"1", "6">>>>),
     TextLine(<<<<"x">>, <<"8">>, <<"2", "0", "0">>>>),
     TextLine(<<<<"r", "e", "c">>, <<"2">>>>),
     TextLine(<<<<"~">>, <<"1">>>>),
     TextLine(<<<<"x">>, <<"1", "6">>, <<"2", "0", "0">>, <<"x">>>>)}

HeaderFiles ==
    SeqsUpTo(HeaderBodyLines \ {TextLine(<<<<"~">>, <<"1">>>>)}, 1) \cup
    {lead \o <<rl>> \o body :
        lead \in {<<>>, <<[kind |-> "comment", fields |-> <<>>]>>},
        rl \in HeaderRecordLines,
        body \in SeqsUpTo(HeaderBodyLines, MaxSpecLines)}

InitHea ==
    /\ \E lines \in HeaderFiles : hea = [on |-> TRUE, lines |-> lines, done |-> FALSE]
    /\ dec = Idle /\ msr = Idle /\ sr = Idle /\ seg = Idle /\ hdr = Idle /\ sig = Idle /\ rdr = Idle /\ pair = Idle

HeaParse ==
    /\ hea.on /\ ~hea.done
    /\ hea' = [on |-> TRUE, lines |-> hea.lines, done |-> TRUE,
               res |-> from_lines(hea.lines)]
    /\ UNCHANGED <<dec, msr, sr, seg, hdr, sig, rdr, pair>>

NextHea == HeaParse

SpecHea == InitHea /\ [][NextHea]_vars

(***************************************************************************)
(* The frame reader of signal/reader.rs with the decoders of               *)
(* signal/formats.rs: one file group holding all signals of the record.    *)
(***************************************************************************)
frames_to_buffer == 1024

\* i16::try_from(value).ok().unwrap_or(0) on a u16
I16TryFromU16(value) == IF value <= 32767 THEN value ELSE 0

\* signal/formats.rs Format16Decoder::decode: the output after the call
Format16Decode(data, output) ==
    IF Len(data) < 2 THEN output
    ELSE [k \in 1..Len(output) |->
            IF k <= Len(data) \div 2
            THEN I16TryFromU16(data[2 * k] * 256 + data[2 * k - 1])
            ELSE output[k]]

\* the first and the second sample of the three bytes at offset (from 0)
Sample212(data, offset, second) ==
    LET byte0 == data[offset + 1]
        byte1 == data[offset + 2]
        byte2 == data[offset + 3]
        raw == IF second THEN byte2 + (byte1 \div 16) * 256
               ELSE byte0 + (byte1 % 16) * 256
    IN  IF raw >= 2048 THEN I16TryFromU16(raw + 61440) ELSE I16TryFromU16(raw)

\* signal/formats.rs Format212Decoder::decode: the output after the call
Format212Decode(data, output) ==
    LET max_pairs_from_data == Len(data) \div 3
        max_pairs_from_output == Len(output) \div 2
        num_complete_pairs == IF max_pairs_from_data < max_pairs_from_output
                              THEN max_pairs_from_data ELSE max_pairs_from_output
        partial == /\ 2 * num_complete_pairs < Len(output)
                   /\ Len(data) >= num_complete_pairs * 3 + 3
    IN  IF Len(data) < 3 THEN output
        ELSE [k \in 1..Len(output) |->
                IF k <= 2 * num_complete_pairs
                THEN Sample212(data, ((k - 1) \div 2) * 3, k % 2 = 0)
                ELSE IF partial /\ k = 2 * num_complete_pairs + 1
                THEN Sample212(data, num_complete_pairs * 3, FALSE)
                ELSE output[k]]

\* the bytes_per_frame of a file group in SignalReader::new
GroupBytesPerFrame(format, num_signals) ==
    IF format = 16 THEN num_signals * 2 ELSE ((num_signals + 1) \div 2) * 3

\* Vec::resize(new_len, 0)
Resize(v, new_len) == [k \in 1..new_len |-> IF k <= Len(v) THEN v[k] ELSE 0]

\* the capacity of the buffer of BufReader::new
DEFAULT_BUF_SIZE == 8192

Min(a, b) == IF a < b THEN a ELSE b

\* one BufReader<File>::read into a chunk of len bytes, left bytes of the
\* file lying after the stream position and buffered of them being held in
\* the BufReader: [n, buffered].  An empty buffer is passed by for a chunk of
\* its capacity or more, and is filled from the file otherwise; the call
\* returns what the buffer holds, the chunk's length at most
BufReaderRead(left, buffered, len) ==
    IF buffered = 0 /\ len >= DEFAULT_BUF_SIZE
    THEN [n |-> Min(left, len), buffered |-> 0]
    ELSE LET held == IF buffered = 0 THEN Min(left, DEFAULT_BUF_SIZE) ELSE buffered
         IN  [n |-> Min(held, len), buffered |-> held - Min(held, len)]

\* signal/reader.rs SignalReader::read_frame: the reader after the call and
\* the value returned, <<>> for None and <<frame>> for Some(frame); file_pos
\* is the stream position of the BufReader, buffered the bytes it holds
reader_read_frame(r) ==
    LET raw_buffer_len == r.bytes_per_frame * frames_to_buffer
        bytes_to_read == (raw_buffer_len \div r.bytes_per_frame) * r.bytes_per_frame
        rd == BufReaderRead(Len(r.file) - r.file_pos, r.buffered, bytes_to_read)
        n == rd.n
        valid_bytes == (n \div r.bytes_per_frame) * r.bytes_per_frame
        num_samples_total == (valid_bytes \div r.bytes_per_frame) * r.num_signals
        data == SubSeq(r.file, r.file_pos + 1, r.file_pos + valid_bytes)
        resized == Resize(r.sample_buffer, num_samples_total)
        refill == r.buffer_pos >= Len(r.sample_buffer)
        filled == IF ~refill THEN r
                  ELSE [r EXCEPT !.file_pos = r.file_pos + n,
                                 !.buffered = rd.buffered,
                                 !.sample_buffer =
                                     IF r.format = 16 THEN Format16Decode(data, resized)
                                     ELSE Format212Decode(data, resized),
                                 !.buffer_pos = 0]
    IN  IF r.num_samples # <<>> /\ r.current_time >= r.num_samples[1]
        THEN [r |-> r, out |-> <<>>]
        ELSE IF refill /\ n = 0 THEN [r |-> r, out |-> <<>>]
        ELSE IF refill /\ valid_bytes = 0
        THEN [r |-> [r EXCEPT !.file_pos = r.file_pos + n, !.buffered = rd.buffered],
              out |-> <<>>]
        ELSE IF filled.buffer_pos + r.num_signals > Len(filled.sample_buffer)
        THEN [r |-> filled, out |-> <<>>]
        ELSE [r |-> [filled EXCEPT !.buffer_pos = filled.buffer_pos + r.num_signals,
                                   !.current_time = r.current_time + 1],
              out |-> <<[i \in 1..r.num_signals |->
                            filled.sample_buffer[filled.buffer_pos + i]]>>]

(***************************************************************************)
(* Frame-reader harness: a record of two signals interleaved in one file   *)
(* of format 16 or 212, as the tests of tests/signal_tests.rs write it.    *)
(***************************************************************************)
StoredValues == {0, 10, 20, -10, -20}

\* the bytes of one stored frame <<s1, s2>> (two's complement, 16 or 12 bits)
FrameBytes(format, f) ==
    LET w1 == f[1] % 65536
        w2 == f[2] % 65536
        t1 == f[1] % 4096
        t2 == f[2] % 4096
    IN  IF format = 16 THEN <<w1 % 256, w1 \div 256, w2 % 256, w2 \div 256>>
        ELSE <<t1 % 256, (t1 \div 256) + 16 * (t2 \div 256), t2 % 256>>

RECURSIVE FileBytes(_, _)
FileBytes(format, stored) ==
    IF stored = <<>> THEN <<>>
    ELSE FrameBytes(format, Head(stored)) \o FileBytes(format, Tail(stored))

InitRdr ==
    /\ \E format \in {16, 212},
          stored \in SeqsUpTo(StoredValues \X StoredValues, MaxStoredFrames),
          extra \in {<<>>, <<246>>},
          num_samples \in {<<>>, <<1>>, <<10>>} :
            rdr = [on |-> TRUE, format |-> format, num_signals |-> 2,
                   bytes_per_frame |-> GroupBytesPerFrame(format, 2),
                   num_samples |-> num_samples, stored |-> stored,
                   file |-> FileBytes(format, stored) \o extra, file_pos |-> 0,
                   buffered |-> 0,
                   sample_buffer |-> <<>>, buffer_pos |-> 0, current_time |-> 0,
                   calls |-> 0, last |-> <<>>]
    /\ dec = Idle /\ msr = Idle /\ sr = Idle /\ seg = Idle /\ hdr = Idle /\ sig = Idle /\ pair = Idle
    /\ hea = Idle

RdrReadFrame ==
    /\ rdr.on /\ rdr.calls < MaxReads
    /\ LET res == reader_read_frame(rdr)
       IN  rdr' = [res.r EXCEPT !.calls = rdr.calls + 1, !.last = res.out]
    /\ UNCHANGED <<dec, msr, sr, seg, hdr, sig, hea, pair>>

NextRdr == RdrReadFrame

SpecRdr == InitRdr /\ [][NextRdr]_vars

(***************************************************************************)
(* Two readers opened on one record.  The files a process has open are a   *)
(* table fds of [path, offset]; a reader holds the indices of its own      *)
(* entries (h.fd, one per file it opened) and its other fields by value.   *)
(***************************************************************************)
\* a variant in which a path that is already open is not opened again
FileOpenShared(fds, path) ==
    LET open == {i \in 1..Len(fds) : fds[i].path = path}
    IN  IF open = {}
        THEN [fds |-> Append(fds, [path |-> path, offset |-> 0]), fd |-> Len(fds) + 1]
        ELSE [fds |-> fds, fd |-> CHOOSE i \in open : TRUE]

\* File::open: a new entry of the table, at offset 0
FileOpen(fds, path) ==
    [fds |-> Append(fds, [path |-> path, offset |-> 0]), fd |-> Len(fds) + 1]

\* SignalReader::new once the file is open (o) and the fields are built (r):
\* the reader seeks to the byte offset when it is positive
OpenedSignalReader(o, r) ==
    [fds |-> IF r.initial_offset > 0
             THEN [o.fds EXCEPT ![o.fd].offset = r.initial_offset]
             ELSE o.fds,
     h |-> [kind |-> "signal", r |-> r, fd |-> <<o.fd>>]]

\* SignalReader::new with the file table
OpenSignalReader(fds, signals, signal_index) ==
    OpenedSignalReader(FileOpen(fds, signals[signal_index].file_name),
                       SrNew(signals, signal_index))

RECURSIVE OpenGroups(_, _, _, _)
\* group g once its file is open (o): seek to the byte offset (0 leaves the
\* new file where it is), then the groups that follow
OpenedGroup(o, r, g, fd) ==
    OpenGroups([o.fds EXCEPT ![o.fd].offset = r.groups[g].initial_offset],
               r, g + 1, Append(fd, o.fd))

\* the group loop of MultiSignalReader::new with the file table
OpenGroups(fds, r, g, fd) ==
    IF g > Len(r.groups) THEN [fds |-> fds, h |-> [kind |-> "multi", r |-> r, fd |-> fd]]
    ELSE OpenedGroup(FileOpen(fds, r.groups[g].file), r, g, fd)

OpenMultiSignalReader(fds, signals, order) ==
    OpenGroups(fds, MsrNew(signals, order), 1, <<>>)

\* the reader h with the offsets of its open files read from the table
ReaderView(h, fds) ==
    IF h.kind = "signal" THEN [h.r EXCEPT !.pos = fds[h.fd[1]].offset]
    ELSE [h.r EXCEPT !.groups =
              [g \in 1..Len(h.r.groups) |->
                  [h.r.groups[g] EXCEPT !.pos = fds[h.fd[g]].offset]]]

\* the table after reader h has moved its files to the offsets of r
StoreOffsets(h, fds, r) ==
    [i \in 1..Len(fds) |->
        IF \E g \in 1..Len(h.fd) : h.fd[g] = i
        THEN LET g == CHOOSE g \in 1..Len(h.fd) : h.fd[g] = i
             IN  [fds[i] EXCEPT !.offset = IF h.kind = "signal" THEN r.pos
                                           ELSE r.groups[g].pos]
        ELSE fds[i]]

\* one operation on the reader r of the given kind: read_samples_buf(n) and
\* seek_to_sample(k) of a SignalReader, read_frame() and seek_to_frame(k) of a
\* MultiSignalReader; the reader after the call and what the call returned
\* what the caller of each of the four operations keeps of its result
ReadReturned(res, op) ==
    [r |-> res.r, last |-> [op |-> "read", arg |-> op.arg,
                            kind |-> IF res.ok THEN "ok" ELSE "err", out |-> res.out]]

SeekReturned(res, op) ==
    [r |-> res.r, last |-> [op |-> "seek", arg |-> op.arg,
                            kind |-> IF res.ok THEN "ok" ELSE "err",
                            out |-> IF res.ok THEN <<res.ret>> ELSE <<>>]]

FrameReturned(res, op) ==
    [r |-> res.r, last |-> [op |-> "read", arg |-> op.arg, kind |-> res.kind,
                            out |-> res.frame]]

FrameSeekReturned(res, op) ==
    [r |-> res.r, last |-> [op |-> "seek", arg |-> op.arg,
                            kind |-> IF res.ok THEN "ok" ELSE "err", out |-> <<>>]]

ReaderApply(kind, r, files, op) ==
    IF kind = "signal" /\ op.op = "read"
    THEN ReadReturned(SrReadSamplesBuf(r, files, op.arg), op)
    ELSE IF kind = "signal" THEN SeekReturned(SrSeekToSample(r, op.arg), op)
    ELSE IF op.op = "read" THEN FrameReturned(MsrReadFrame(r, files), op)
    ELSE FrameSeekReturned(MsrSeekToFrame(r, op.arg), op)

(***************************************************************************)
(* Two-reader harness: readers x and y are opened on one record, x a       *)
(* SignalReader and y a SignalReader or a MultiSignalReader; every reader  *)
(* has a twin (solo) that is opened alone and given the reader's own       *)
(* operations only.                                                        *)
(***************************************************************************)
PairRecords ==
    {[signals |-> MakeSignals(lay, sa, [format |-> 16, initial_value |-> <<>>], off),
      files |-> MakeFiles(MaxFileBytes, MaxFileBytes \div 2)] :
        lay \in {<<"a">>, <<"a", "a">>, <<"a", "b">>},
        sa \in {s \in FileSetups : s.format \in {8, 16, 212}},
        off \in {<<>>, <<1>>}}

\* the ways to open the second reader: the SignalReader of a signal (its
\* index) or a MultiSignalReader (the order of its groups)
SecondReaders(signals) ==
    {[kind |-> "signal", signal_index |-> i, order |-> <<>>] : i \in 1..Len(signals)} \cup
    {[kind |-> "multi", signal_index |-> 0, order |-> order] :
        order \in Orders(FileNamesOf(signals))}

OpenSecond(fds, signals, how) ==
    IF how.kind = "signal" THEN OpenSignalReader(fds, signals, how.signal_index)
    ELSE OpenMultiSignalReader(fds, signals, how.order)

\* the harness state once x and y are opened (ox, oy) and their twins are
\* opened alone (sx, sy)
PairOpened(rec, ox, oy, sx, sy) ==
    [on |-> TRUE, signals |-> rec.signals, files |-> rec.files,
     fds |-> oy.fds, ops |-> 0,
     rd |-> [w \in {"x", "y"} |->
               [h |-> IF w = "x" THEN ox.h ELSE oy.h,
                solo |-> IF w = "x" THEN ReaderView(sx.h, sx.fds)
                         ELSE ReaderView(sy.h, sy.fds),
                last |-> NoOp, solo_last |-> NoOp]]]

PairOpenSecond(rec, ox, how) ==
    PairOpened(rec, ox, OpenSecond(ox.fds, rec.signals, how), ox,
               OpenSecond(<<>>, rec.signals, how))

InitPair ==
    /\ \E rec \in PairRecords :
         \E ix \in 1..Len(rec.signals) :
           \E how \in SecondReaders(rec.signals) :
             pair = PairOpenSecond(rec, OpenSignalReader(<<>>, rec.signals, ix), how)
    /\ dec = Idle /\ msr = Idle /\ sr = Idle /\ seg = Idle /\ hdr = Idle /\ sig = Idle
    /\ hea = Idle /\ rdr = Idle

\* the harness state after reader w (entry e) got res from the call and its
\* twin got alone
PairAfter(w, e, res, alone) ==
    [pair EXCEPT !.fds = StoreOffsets(e.h, pair.fds, res.r),
                 !.ops = pair.ops + 1,
                 !.rd[w] = [h |-> [e.h EXCEPT !.r = res.r], solo |-> alone.r,
                            last |-> res.last, solo_last |-> alone.last]]

PairOp(w, op) ==
    /\ pair.on /\ pair.ops < MaxPairOps
    /\ pair' = PairAfter(w, pair.rd[w],
                         ReaderApply(pair.rd[w].h.kind,
                                     ReaderView(pair.rd[w].h, pair.fds), pair.files, op),
                         ReaderApply(pair.rd[w].h.kind, pair.rd[w].solo, pair.files, op))
    /\ UNCHANGED <<dec, msr, sr, seg, hdr, sig, hea, rdr>>

PairRead(w, n) == PairOp(w, [op |-> "read", arg |-> n])

PairSeek(w, k) == PairOp(w, [op |-> "seek", arg |-> k])

NextPair ==
    \/ \E w \in {"x", "y"} : \E n \in 1..2 : PairRead(w, n)
    \/ \E w \in {"x", "y"} : \E k \in 0..1 : PairSeek(w, k)

SpecPair == InitPair /\ [][NextPair]_vars

(***************************************************************************)
(* Properties of the decoders (checked under SpecDec).                     *)
(***************************************************************************)

\* C7 (as stated): after reset(), decoding the stream from the restart point
\* gives the output of a freshly constructed decoder with the same constructor
\* arguments, for every format and every prior history.
C7_ResetEqualsFreshSameArgs ==
    (dec.on /\ dec.wasReset) => dec.out = dec.tw.out

\* C7 (amended): after reset(), the decoders of formats 212, 310 and 311 (and
\* the stateless ones) are in the state of a freshly constructed decoder and
\* decode the stream identically; Format 8's reset() sets the accumulator to 0,
\* so it decodes like a fresh decoder constructed with initial value 0.
C7_ResetEqualsFresh ==
    (dec.on /\ dec.wasReset) =>
        /\ dec.fmt # 8 => (dec.out = dec.tw.out /\ dec.d = dec.tw.d /\ dec.pos = dec.tw.pos)
        /\ dec.fmt = 8 => (dec.out = dec.tz.out /\ dec.d = dec.tz.d /\ dec.pos = dec.tz.pos)

C7_Witness ==
    /\ dec.on /\ dec.wasReset /\ dec.fmt = 8 /\ dec.iv = 100
    /\ Len(dec.out) >= 2 /\ dec.out # dec.tw.out

RECURSIVE Accumulate8(_, _, _)
\* v0 (+) d_1 (+) ... (+) d_i with the saturating add of the format table
Accumulate8(v0, bytes, i) ==
    IF i = 0 THEN v0 ELSE SatAdd(Accumulate8(v0, bytes, i - 1), I8(bytes[i]))

\* C8: a Format 8 decoder created with initial value v0 outputs, for the i-th
\* difference byte, the saturating accumulation of v0 and d_1..d_i, whatever
\* the byte values are (no invalid marker).
C8_Format8Accumulates ==
    (dec.on /\ dec.fmt = 8 /\ ~dec.wasReset) =>
        \A i \in 1..Len(dec.out) : dec.out[i] = Accumulate8(dec.iv, dec.bytes, i)

\* the invalid marker of each format: the most negative value of its bit width
ClaimedMarker(fmt) ==
    CASE fmt \in {16, 61, 160} -> -(2 ^ 15)
      [] fmt = 24 -> -(2 ^ 23)
      [] fmt = 32 -> I32Min
      [] fmt = 80 -> -(2 ^ 7)
      [] fmt = 212 -> -(2 ^ 11)
      [] fmt \in {310, 311} -> -(2 ^ 9)

\* C9: for formats 16, 24, 32, 61, 80, 160, 212, 310 and 311 a decoded sample
\* is the invalid-sample sentinel iff the stored value is the format's invalid
\* marker; every other stored value is emitted as itself.
C9_SentinelIffMarker ==
    (dec.on /\ dec.fmt \notin {0, 8}) =>
        /\ Len(dec.raw) = Len(dec.out)
        /\ \A i \in 1..Len(dec.out) :
             /\ (dec.out[i] = INVALID_SAMPLE) <=> (dec.raw[i] = ClaimedMarker(dec.fmt))
             /\ dec.raw[i] # ClaimedMarker(dec.fmt) => dec.out[i] = dec.raw[i]

C9_Witness ==
    /\ dec.on /\ dec.fmt = 212 /\ Len(dec.out) = 2
    /\ dec.out[1] = INVALID_SAMPLE /\ dec.raw[1] = -2048
    /\ dec.out[2] = 0

(***************************************************************************)
(* Properties of the multi-signal frame reader (checked under SpecMsr).    *)
(***************************************************************************)
RECURSIVE MsrNthRead(_, _, _)
\* the result of the (k+1)-th read_frame of a sequential pass starting at r
MsrNthRead(r, files, k) ==
    LET x == MsrReadFrame(r, files)
    IN  IF k = 0 \/ x.kind # "frame" THEN x ELSE MsrNthRead(x.r, files, k - 1)

\* C5: for any group format with a defined bytesPerFrame(n), seek_to_frame(k)
\* followed by one read_frame() returns the frame that a sequential pass from
\* position 0 returns as its frame k, for every k inside the file.
C5_SeekThenReadIsSequential ==
    (msr.on /\ msr.last.op = "read" /\ msr.prev.op = "seek" /\ msr.prev.kind = "ok") =>
        LET sq == MsrNthRead(MsrNew(msr.signals, msr.order), msr.files, msr.prev.arg)
        IN  sq.kind = "frame" => (msr.last.kind = "frame" /\ msr.last.out = sq.frame)

(***************************************************************************)
(* Properties of the single-signal reader (checked under SpecSr).          *)
(***************************************************************************)

\* C6: after seek_to_sample(k) succeeds the call has returned k, position() is
\* k, and the very next read returns the samples that a sequential decode from
\* the start of the signal yields from index k on.
C6_SeekThenReadIsSequential ==
    /\ (sr.on /\ sr.last.op = "seek" /\ sr.last.kind = "ok") =>
           (sr.last.out = <<sr.last.arg>> /\ sr.r.current_sample = sr.last.arg)
    /\ (sr.on /\ sr.last.op = "read" /\ sr.prev.op = "seek" /\ sr.prev.kind = "ok") =>
           LET k == sr.prev.arg
               sq == SrReadSamplesBuf(SrNew(sr.signals, sr.idx), sr.files,
                                      k + sr.last.arg)
           IN  (sq.ok /\ Len(sq.out) > k) =>
                   /\ sr.last.kind = "ok"
                   /\ sr.last.out = SubSeq(sq.out, k + 1, Len(sq.out))


(***************************************************************************)
(* Properties of the segment reader (checked under SpecSeg).               *)
(***************************************************************************)
AllNonNull(cfg) == \A k \in 1..Len(cfg) : ~cfg[k].null

RECURSIVE MsrAllFrames(_, _, _)
\* the frames a sequential pass of a MultiSignalReader returns until its end
MsrAllFrames(r, files, acc) ==
    LET x == MsrReadFrame(r, files)
    IN  IF x.kind # "frame" THEN acc ELSE MsrAllFrames(x.r, files, Append(acc, x.frame))

\* the decoded frames of the child record of segment i (from 0)
ChildFrames(i) ==
    LET signals == SegmentSignals(seg.r.segment_manager.segments[i + 1].record_name)
    IN  IF seg.cfg[i + 1].null THEN <<>>
        ELSE MsrAllFrames(MsrNew(signals, <<signals[1].file_name>>), seg.files, <<>>)

RECURSIVE ConcatFrames(_)
\* the frames of segments 0..n-1, one child after the other
ConcatFrames(n) == IF n = 0 THEN <<>> ELSE ConcatFrames(n - 1) \o ChildFrames(n - 1)

RECURSIVE Cumulative(_)
\* the sum of num_samples of the segments before segment i
Cumulative(i) == IF i = 0 THEN 0 ELSE Cumulative(i - 1) + seg.cfg[i].num_samples

\* the segment that holds global sample s
Containing(s) ==
    CHOOSE i \in 0..(Len(seg.cfg) - 1) :
        Cumulative(i) <= s /\ s < Cumulative(i) + seg.cfg[i + 1].num_samples

\* C1: on a record whose segments are all non-null, the k-th frame returned
\* by successive read_frame() calls of a fresh reader is the k-th frame of the
\* concatenation of the children's frames (segment 0, then 1, ..., then N-1).
C1_FramesAreConcatenation ==
    (seg.on /\ AllNonNull(seg.cfg) /\ ~seg.seeked) =>
        \A k \in 1..Len(seg.hist) :
            /\ k <= Len(ConcatFrames(Len(seg.cfg)))
            /\ seg.hist[k] = ConcatFrames(Len(seg.cfg))[k]

\* C2: on a record without null segment, read_frame() returns None (never an
\* error, never running forever) once and only once all the frames of the
\* segments have been returned.
C2_NoneAfterAllFrames ==
    (seg.on /\ AllNonNull(seg.cfg) /\ ~seg.seeked /\ seg.last.op = "read") =>
        LET total == Len(ConcatFrames(Len(seg.cfg)))
        IN  /\ seg.last.kind \in {"frame", "none"}
            /\ seg.last.kind = "none" => Len(seg.hist) = total
            /\ seg.reads > total => seg.last.kind = "none"

\* C3: after seek_to_sample(s) succeeds, current_segment() is the segment i
\* with cumulative[i] <= s < cumulative[i] + num_samples[i], and the reader
\* reads segment i's own signal file.
C3_SeekSelectsContainingSegment ==
    (seg.on /\ seg.last.op = "seek" /\ seg.last.kind = "ok") =>
        LET i == Containing(seg.last.arg)
        IN  /\ SegCurrentSegment(seg.r) = i
            /\ seg.r.current_reader # <<>>
            /\ seg.r.current_reader[1].groups[1].file =
                   seg.r.segment_manager.segments[i + 1].record_name

\* C4: seek_to_sample(s) seeks the inner reader to local frame
\* s - cumulative[i], returns s and makes position() s; the next read_frame()
\* returns the frame at global index s (frame s - cumulative[i] of segment i).
C4_SeekPositionsAtGlobalSample ==
    /\ (seg.on /\ seg.last.op = "seek" /\ seg.last.kind = "ok") =>
           LET s == seg.last.arg
           IN  /\ seg.last.out = <<s>>
               /\ SegPosition(seg.r) = s
               /\ seg.r.current_reader # <<>>
               /\ seg.r.current_reader[1].current_frame = s - Cumulative(Containing(s))
    /\ (seg.on /\ seg.last.op = "read" /\ seg.prev.op = "seek" /\ seg.prev.kind = "ok") =>
           LET s == seg.prev.arg
               i == Containing(s)
           IN  /\ seg.last.kind = "frame"
               /\ seg.last.out = ChildFrames(i)[s - Cumulative(i) + 1]


(***************************************************************************)
(* Properties of the record-line parser (checked under SpecHdr).           *)
(***************************************************************************)

\* C10: parsing a record line fails (InvalidHeader) when the declared segment
\* count is 0, when the declared signal count is 0, or when the sampling
\* frequency is zero or negative: a line that parses declares none of these.
C10_ZeroCountsAndFrequencyRejected ==
    (hdr.on /\ hdr.done /\ hdr.res.ok) =>
        /\ hdr.res.num_segments # <<0>>
        /\ hdr.res.num_signals # 0
        /\ hdr.res.sampling_frequency > 0


\* C11: seek_to_time(seconds) computes k = round(seconds x samplingFrequency)
\* (whole seconds of a record at the default frequency here), leaves the reader
\* where seek_to_sample(k) leaves it and returns k, whenever seek_to_sample(k)
\* is possible for the signal's format.
C11_SeekToTimeSeeksToSample ==
    (sr.on /\ sr.last.op = "seek_time") =>
        LET k == sr.last.arg * DEFAULT_SAMPLING_FREQUENCY
            ref == SrSeekToSample(sr.r, k)
        IN  ref.ok => (sr.last.kind = "ok" /\ sr.last.out = <<k>> /\ sr.r = ref.r)


\* C12: total_samples() is the sum of num_samples over all the segment
\* specifications of the master header.
C12_TotalSamplesIsSum ==
    seg.on => \A build \in Builds :
                  SegTotalSamples(seg.r, build) =
                      [panic |-> FALSE, val |-> Cumulative(Len(seg.cfg))]


\* the first null segment (from 0) of a record that has one
FirstNull ==
    CHOOSE j \in 0..(Len(seg.cfg) - 1) :
        seg.cfg[j + 1].null /\ \A i \in 0..(j - 1) : ~seg.cfg[i + 1].null

\* C13: when sequential reading reaches a null segment, i.e. at every
\* read_frame() call after the frames of the segments before it have been
\* returned, the call returns an error (not a frame, not end-of-stream) and
\* that segment's load state is Null.
C13_NullSegmentIsError ==
    (seg.on /\ ~AllNonNull(seg.cfg) /\ ~seg.seeked /\ seg.last.op = "read"
        /\ seg.reads > Len(ConcatFrames(FirstNull))) =>
        /\ seg.last.kind = "err"
        /\ seg.r.segment_manager.states[FirstNull + 1] = "Null"


(***************************************************************************)
(* Frames of the multi-signal reader (checked under SpecMsr).              *)
(***************************************************************************)
\* the signals that share the file of signal i, in header order
FileMates(i) ==
    SelectSeq(Indices(msr.signals),
              LAMBDA j : msr.signals[j].file_name = msr.signals[i].file_name)

\* the rank (from 0) of signal i among the signals of its file
RankInFile(i) == Cardinality({j \in 1..(i - 1) :
                                msr.signals[j].file_name = msr.signals[i].file_name})

\* the first n samples of the decoded stream of the file of signal i
FileStream(i, n) ==
    LET first == msr.signals[FileMates(i)[1]]
    IN  decode_buf(get_decoder(first.format, unwrap_or(first.initial_value, 0)),
                   msr.files[first.file_name], unwrap_or(first.byte_offset, 0), n).out

\* C14: every non-EOF frame returned by read_frame, in a sequential pass or
\* after a seek_to_frame, has exactly num_signals entries, and entry i of the
\* frame at position f is sample f * w + p of the decoded stream of signal
\* i's file, w being the number of signals of that file and p the rank of
\* signal i among them.
C14_FrameSlots ==
    (msr.on /\ msr.last.op = "read" /\ msr.last.kind = "frame") =>
        /\ Len(msr.last.out) = Len(msr.signals)
        /\ \A i \in 1..Len(msr.signals) :
               LET w == Len(FileMates(i))
                   f == msr.r.current_frame - 1
                   stream == FileStream(i, (f + 1) * w)
               IN  /\ Len(stream) = (f + 1) * w
                   /\ msr.last.out[i] = stream[f * w + RankInFile(i) + 1]


\* the number of samples group gi of reader r yields for its next frame
GroupYield(r, files, gi) ==
    LET g == r.groups[gi]
    IN  Len(decode_buf(g.decoder, files[g.file], g.pos, Len(g.signal_indices)).out)

\* the groups of r that yield fewer samples than their width for the next frame
ShortGroups(r, files) ==
    {gi \in 1..Len(r.groups) : GroupYield(r, files, gi) < Len(r.groups[gi].signal_indices)}

\* the first of them in the reader's group order (ShortGroups is not empty)
FirstShort(r, files) ==
    CHOOSE gi \in ShortGroups(r, files) : \A gj \in ShortGroups(r, files) : gi <= gj

\* C15 (as stated): if any group yields fewer samples than its width, zero
\* or a partial count, read_frame returns an empty result, not an error.
C15_ShortGroupIsEof ==
    [][(msr'.last.op = "read" /\ ShortGroups(msr.r, msr.files) # {}) =>
           (msr'.last.kind = "eof" /\ msr'.last.out = <<>>)]_vars

\* C15 (amended): if the first group that falls short yields zero samples,
\* read_frame returns an empty result (end of stream), not an error; if it
\* yields at least one sample but fewer than its width, read_frame fails
\* with an error; no call returns a partially filled frame, and a frame is
\* returned exactly when no group falls short.
C15_EmptyGroupIsEof ==
    [][msr'.last.op = "read" =>
           LET short == ShortGroups(msr.r, msr.files)
           IN  /\ (short # {} /\ GroupYield(msr.r, msr.files, FirstShort(msr.r, msr.files)) = 0)
                      => msr'.last.kind = "eof"
               /\ (short # {} /\ GroupYield(msr.r, msr.files, FirstShort(msr.r, msr.files)) > 0)
                      => msr'.last.kind = "err"
               /\ msr'.last.kind # "frame" => msr'.last.out = <<>>
               /\ msr'.last.kind = "frame" <=> short = {}]_vars

C15_Witness ==
    /\ msr.on /\ msr.last.op = "read" /\ msr.last.kind = "eof"
    /\ Len(msr.r.groups) = 2 /\ msr.r.current_frame = 1
    /\ msr.prev.op = "read" /\ msr.prev.kind = "frame"
    /\ \E gi \in 1..2 : msr.r.groups[gi].pos < Len(msr.files[msr.r.groups[gi].file])

\* C16: when the data of a record of format-16 signals ends in the middle of
\* a frame (bytes are left, but not a whole frame), read_frame surfaces an
\* error for that frame.
C16_TruncatedFrameIsError ==
    [][(/\ msr'.last.op = "read" /\ msr'.last.kind # "frame"
        /\ \A i \in 1..Len(msr.signals) : msr.signals[i].format = 16
        /\ \E gi \in 1..Len(msr.r.groups) :
              msr.r.groups[gi].pos < Len(msr.files[msr.r.groups[gi].file]))
           => msr'.last.kind = "err"]_vars


\* the decoder has decoded its stream to the end: a further request yields
\* no sample
Exhausted == decode_buf(dec.d, dec.bytes, dec.pos, 1).out = <<>>

\* bytes per sample of the fixed-width formats, as the format table gives it
TableWidth(fmt) ==
    CASE fmt \in {8, 80} -> 1
      [] fmt \in {16, 61, 160} -> 2
      [] fmt = 24 -> 3
      [] fmt = 32 -> 4
      [] OTHER -> 0

\* C17: a decoder started on a stream of m bytes and run to its end has
\* produced floor(m / b) samples if its format is fixed-width with b bytes
\* per sample, 2k samples if the format is 212 and m = 3k, and 3k samples if
\* the format is 310 or 311 and m = 4k.
C17_SampleCountByByteCount ==
    (dec.on /\ Exhausted) =>
        LET m == Len(dec.bytes) - dec.base
            b == TableWidth(dec.fmt)
        IN  /\ b > 0 => Len(dec.out) = m \div b
            /\ (dec.fmt = 212 /\ m % 3 = 0) => Len(dec.out) = 2 * (m \div 3)
            /\ (dec.fmt \in {310, 311} /\ m % 4 = 0) => Len(dec.out) = 3 * (m \div 4)

C17_Witness ==
    /\ dec.on /\ Exhausted /\ dec.last = 0
    /\ dec.fmt = 212 /\ Len(dec.bytes) = 6 /\ dec.base = 0 /\ Len(dec.out) = 4


\* v as a two's complement number of the given width
SignExtend(v, bits) == IF v >= Pow2(bits - 1) THEN v - Pow2(bits) ELSE v

\* the sample a decoder reports for the stored value v of a format whose
\* invalid marker is marker
Reported(v, marker) == IF v = marker THEN INVALID_SAMPLE ELSE v

\* sample j (from 0) of a format 212 stream that starts after base bytes
Claimed212(bytes, base, j) ==
    LET t == base + 3 * (j \div 2)
        byte0 == bytes[t + 1]
        byte1 == bytes[t + 2]
    IN  IF j % 2 = 0
        THEN SignExtend(byte0 + (byte1 % 16) * 256, 12)
        ELSE SignExtend(bytes[t + 3] + (byte1 \div 16) * 256, 12)

\* C18: the samples a Format 212 decoder has produced, over any sequence of
\* calls, are in order s0, s1 of the first byte triple, s0, s1 of the second,
\* and so on, with s0 = signExtend12(byte0 | (byte1 & 0x0F) << 8) and
\* s1 = signExtend12(byte2 | (byte1 >> 4) << 8).
C18_Format212Pairs ==
    (dec.on /\ dec.fmt = 212) =>
        \A j \in 1..Len(dec.out) :
            /\ dec.base + 3 * ((j - 1) \div 2) + 2 + ((j - 1) % 2) <= Len(dec.bytes)
            /\ dec.out[j] = Reported(Claimed212(dec.bytes, dec.base, j - 1), -2048)

C18_Witness ==
    /\ dec.on /\ dec.fmt = 212 /\ Len(dec.bytes) = 6 /\ dec.base = 0
    /\ Len(dec.out) = 4 /\ dec.last = 1
    /\ dec.out[1] # dec.out[2] /\ dec.out[3] > 0 /\ dec.out[4] < 0

\* sample j (from 0) of a format 310 stream that starts after base bytes
Claimed310(bytes, base, j) ==
    LET t == base + 4 * (j \div 3)
        w0 == bytes[t + 1] + 256 * bytes[t + 2]
        w1 == bytes[t + 3] + 256 * bytes[t + 4]
    IN  CASE j % 3 = 0 -> SignExtend((w0 \div 2) % 1024, 10)
          [] j % 3 = 1 -> SignExtend((w1 \div 2) % 1024, 10)
          [] OTHER -> SignExtend(((w0 \div 2048) % 32) + ((w1 \div 2048) % 32) * 32, 10)

\* sample j (from 0) of a format 311 stream that starts after base bytes
Claimed311(bytes, base, j) ==
    LET t == base + 4 * (j \div 3)
        low24 == bytes[t + 1] + 256 * bytes[t + 2] + 65536 * bytes[t + 3]
        \* bits 20 and up of the word: the high nibble of byte 2, then byte 3
        from20 == (bytes[t + 3] \div 16) + 16 * bytes[t + 4]
    IN  CASE j % 3 = 0 -> SignExtend(low24 % 1024, 10)
          [] j % 3 = 1 -> SignExtend((low24 \div 1024) % 1024, 10)
          [] OTHER -> SignExtend(from20 % 1024, 10)

\* C19: the samples a Format 310 or 311 decoder has produced are, in order,
\* s0, s1, s2 of each 4-byte group: for 310 the fields (w0 >> 1) & 0x3FF,
\* (w1 >> 1) & 0x3FF and ((w0 >> 11) & 0x1F) | (((w1 >> 11) & 0x1F) << 5) of
\* the little-endian words w0, w1, for 311 the fields at bit offsets 0, 10 and
\* 20 of the little-endian 32-bit word, each sign-extended from 10 bits.
C19_Format310And311Triples ==
    (dec.on /\ dec.fmt \in {310, 311}) =>
        \A j \in 1..Len(dec.out) :
            /\ dec.base + 4 * ((j - 1) \div 3)
                 + (IF dec.fmt = 310 /\ (j - 1) % 3 = 0 THEN 2 ELSE 4) <= Len(dec.bytes)
            /\ dec.out[j] = Reported(IF dec.fmt = 310
                                     THEN Claimed310(dec.bytes, dec.base, j - 1)
                                     ELSE Claimed311(dec.bytes, dec.base, j - 1), -512)

C19_Witness ==
    /\ dec.on /\ dec.fmt = 310 /\ Len(dec.bytes) = 8 /\ dec.base = 0
    /\ Len(dec.out) = 6 /\ dec.last = 2
    /\ dec.out[1] < 0 /\ dec.out[3] < 0 /\ dec.out[1] # dec.out[3] /\ dec.out[4] # dec.out[1]


\* bytes per frame of num_signals interleaved signals, as the format table
\* gives it
TableFrameBytes(fmt, num_signals) ==
    CASE fmt = 0 -> 0
      [] fmt \in {8, 80} -> num_signals
      [] fmt \in {16, 61, 160} -> 2 * num_signals
      [] fmt = 24 -> 3 * num_signals
      [] fmt = 32 -> 4 * num_signals
      [] fmt = 212 -> ((num_signals + 1) \div 2) * 3
      [] fmt \in {310, 311} -> ((num_signals + 2) \div 3) * 4

\* C20: bytes_per_frame(n) of the decoder of every format is the value of the
\* format table: 0 for format 0, n for 8 and 80, 2n for 16, 61 and 160, 3n for
\* 24, 4n for 32, ceil(n/2)*3 for 212 and ceil(n/3)*4 for 310 and 311.
C20_BytesPerFrameTable ==
    (dec.on /\ dec.frame_bytes # <<>>) =>
        dec.frame_bytes[2] = TableFrameBytes(dec.fmt, dec.frame_bytes[1])


\* the counter frequency written in a frequency field `samp/counter[(base)]`
\* (the field has a `/`)
WrittenCounter(field) ==
    LET counter_part == split_once(field, "/")[2]
    IN  ParseF64(IF contains(counter_part, "(")
                 THEN SubSeq(counter_part, 1, find(counter_part, "("))
                 ELSE counter_part)

\* field is a frequency field whose counter frequency is zero or negative
NonPositiveCounter(field) ==
    /\ matches_count(field, "/") = 1 /\ ~contains(field, ":")
    /\ WrittenCounter(field).ok /\ WrittenCounter(field).v <= 0

\* the line with its frequency field (the third) replaced by the plain `360`
WithPlainFrequency(line) == [line EXCEPT ![3] = <<"3", "6", "0">>]

\* C21: a record line whose frequency field carries a zero or negative
\* counter frequency, and which is well formed otherwise, parses successfully
\* with the counter frequency absent; a base counter written in parentheses
\* is preserved.
C21_NonPositiveCounterIsAbsent ==
    (/\ hdr.on /\ hdr.done /\ Len(hdr.line) >= 3
     /\ NonPositiveCounter(hdr.line[3])
     /\ from_record_line(WithPlainFrequency(hdr.line)).ok) =>
        /\ hdr.res.ok
        /\ hdr.res.counter_frequency = <<>>
        /\ contains(hdr.line[3], ")") => hdr.res.base_counter = <<5>>


\* the kind of an optional token of a record line, by its shape
TokenKind(field) ==
    IF contains(field, ":") THEN "time"
    ELSE IF matches_count(field, "/") = 2 THEN "date"
    ELSE IF contains(field, "/") \/ contains(field, "(") THEN "frequency"
    ELSE "plain"

\* the optional tokens break the order frequency, numSamples, baseTime,
\* baseDate: a frequency token that is not the first token, two time tokens or
\* two date tokens, a date before a time, a plain number after a time or a
\* date, or a third plain number
Misordered(fields) ==
    \/ \E j \in 2..Len(fields) : TokenKind(fields[j]) = "frequency"
    \/ \E i, j \in 1..Len(fields) :
          /\ i < j
          /\ \/ TokenKind(fields[i]) = "time" /\ TokenKind(fields[j]) = "time"
             \/ TokenKind(fields[i]) = "date" /\ TokenKind(fields[j]) \in {"time", "date"}
             \/ TokenKind(fields[i]) \in {"time", "date"} /\ TokenKind(fields[j]) = "plain"
    \/ Cardinality({j \in 1..Len(fields) : TokenKind(fields[j]) = "plain"}) >= 3

\* C22: a record line whose optional tokens are duplicated or out of the
\* order frequency, numSamples, baseTime, baseDate is rejected, whatever the
\* tokens are otherwise.
C22_MisorderedTokensRejected ==
    (hdr.on /\ hdr.done /\ Len(hdr.line) >= 3
        /\ Misordered(SubSeq(hdr.line, 3, Len(hdr.line)))) => ~hdr.res.ok

C22_Witness ==
    /\ hdr.on /\ hdr.done /\ ~hdr.res.ok
    /\ hdr.line = <<<<"r", "e", "c">>, <<"2">>, <<"1", "0", "0">>, <<"1", "0", "0">>,
                    <<"1", "0", "0">>>>


\* C29: a record line with a base-date token that no base-time token
\* precedes is rejected.
C29_DateWithoutTimeRejected ==
    (hdr.on /\ hdr.done /\ Len(hdr.line) >= 3
        /\ \E j \in 3..Len(hdr.line) :
              /\ TokenKind(hdr.line[j]) = "date"
              /\ \A i \in 3..(j - 1) : TokenKind(hdr.line[i]) # "time") => ~hdr.res.ok


\* the optional fields of the signal line under test
SigOptional == SubSeq(sig.line, 3, Len(sig.line))

\* field is written as the j-th optional field of a signal line should be:
\* gain, resolution (u8), ADC zero, initial value (i32), checksum (i16),
\* block size (i32)
WellWritten(j, field) ==
    CASE j = 1 -> parse_gain_field(field).ok
      [] j = 2 -> ParseU8(field).ok
      [] j = 5 -> ParseI16(field).ok
      [] OTHER -> ParseI32(field).ok

\* the optional fields start with a gain and field j (2 to 6) is the first
\* that is not written as the field expected there
FirstBadAfterGain(fields, j) ==
    /\ j \in 2..6 /\ j <= Len(fields)
    /\ \A i \in 1..(j - 1) : WellWritten(i, fields[i])
    /\ ~WellWritten(j, fields[j])

\* the fields from index j on (at most three), joined by single spaces
Joined(fields, j) ==
    LET Rest == SubSeq(fields, j, Len(fields))
    IN  IF Len(Rest) = 1 THEN Rest[1]
        ELSE IF Len(Rest) = 2 THEN Rest[1] \o <<" ">> \o Rest[2]
        ELSE Rest[1] \o <<" ">> \o Rest[2] \o <<" ">> \o Rest[3]

\* C23 (as stated): when a token after a gain is not the numeric field
\* expected at its place, that token and the remaining ones, joined by single
\* spaces, become the description, and the line parses.
C23_FailedTokenStartsDescription ==
    (sig.on /\ sig.done /\ Len(sig.line) >= 3 /\ parse_format_field(sig.line[2]).ok) =>
        \A j \in 2..6 :
            FirstBadAfterGain(SigOptional, j) =>
                /\ sig.res.ok
                /\ sig.res.description = <<Joined(SigOptional, j)>>

\* where the description of a signal line starts: at the first optional field
\* if it is neither a gain nor a block size, at the second if the first is a
\* block size, at the seventh if the six numeric fields are all written well;
\* 0 if nowhere
DescriptionStart(fields) ==
    IF fields = <<>> THEN 0
    ELSE IF WellWritten(1, fields[1])
    THEN (IF Len(fields) >= 7 /\ \A i \in 2..6 : WellWritten(i, fields[i]) THEN 7 ELSE 0)
    ELSE IF ParseI32(fields[1]).ok
    THEN (IF Len(fields) >= 2 THEN 2 ELSE 0)
    ELSE 1

\* C23 (amended): a token after a gain that is not written as the numeric
\* field expected at its place starts no description: the line is rejected
\* with an error.  A description starts at the first optional token if it is
\* neither a gain nor a block size, or at the token that follows the block
\* size, and nowhere else: in a line that parses, the description is that
\* token and all remaining ones joined by single spaces, and there is none
\* when no such token exists.
C23_DescriptionAtStartOrAfterBlockSize ==
    (sig.on /\ sig.done /\ Len(sig.line) >= 2 /\ parse_format_field(sig.line[2]).ok) =>
        /\ \A j \in 2..6 :
              FirstBadAfterGain(SigOptional, j) => sig.res = HdrErr
        /\ sig.res.ok =>
              sig.res.description =
                  IF DescriptionStart(SigOptional) # 0
                  THEN <<Joined(SigOptional, DescriptionStart(SigOptional))>>
                  ELSE <<>>

C23_Witness ==
    /\ sig.on /\ sig.done /\ sig.res.ok
    /\ Len(sig.line) = 10 /\ sig.line[2] = <<"1", "6">>
    /\ sig.line[9] = <<"E", "C", "G">> /\ sig.line[10] = <<"2", "0", "0">>
    /\ sig.res.description = <<<<"E", "C", "G", " ", "2", "0", "0">>>>
    /\ sig.res.block_size = <<0>>

\* C24: after a gain token, a token that is not written as the next numeric
\* field in sequence (resolution, ADC zero, initial value, checksum, block
\* size) makes the parsing of the line fail.
C24_BadNumericAfterGainRejected ==
    (sig.on /\ sig.done /\ Len(sig.line) >= 4) =>
        \A j \in 2..6 : FirstBadAfterGain(SigOptional, j) => ~sig.res.ok

C24_Witness ==
    /\ sig.on /\ sig.done /\ ~sig.res.ok
    /\ Len(sig.line) = 7 /\ sig.line[2] = <<"1", "6">>
    /\ sig.line[6] = <<"E", "C", "G">>
    /\ FirstBadAfterGain(SigOptional, 4)


\* C25: the sample sequence of a decoder over a finite byte stream is finite:
\* after finitely many advances the iterator yields end-of-sequence.
C25_SampleSequenceEnds == <>(dec.on /\ dec.done)

(***************************************************************************)
(* C26: the specifications a parsed header holds                           *)
(***************************************************************************)
\* the record line as written: the first text line of the file
WrittenRecordLine ==
    LET text == {i \in 1..Len(hea.lines) : hea.lines[i].kind = "text"}
    IN  CHOOSE i \in text : \A j \in text : i <= j

\* the position of the `/` in the written record name, 0 when there is none
WrittenSlash ==
    LET name == hea.lines[WrittenRecordLine].fields[1]
        at == {k \in 1..Len(name) : name[k] = "/"}
    IN  IF at = {} THEN 0 ELSE CHOOSE k \in at : \A j \in at : k <= j

\* the count the written record line declares: the segment count when the
\* name carries one, the signal count otherwise
WrittenCount ==
    LET fields == hea.lines[WrittenRecordLine].fields
    IN  IF WrittenSlash = 0 THEN ParseUnsigned(fields[2]).v
        ELSE ParseUnsigned(SubSeq(fields[1], WrittenSlash + 1, Len(fields[1]))).v

\* the number of specification lines that follow the record line
WrittenSpecLines ==
    Cardinality({i \in (WrittenRecordLine + 1)..Len(hea.lines) :
                    hea.lines[i].kind = "text"})

\* C26: a parsed header holds exactly numSignals signal specifications when
\* the record line has no segment count and exactly numSegments segment
\* specifications when it has one, never both kinds; a header with fewer
\* specification lines than declared is rejected.
C26_SpecificationCountMatchesRecordLine ==
    (hea.on /\ hea.done) =>
        /\ hea.res.ok =>
              LET specifications == hea.res.specifications
              IN  /\ (specifications.kind = "MultiSegment") <=> (WrittenSlash # 0)
                  /\ (hea.res.metadata.num_segments # <<>>) <=> (WrittenSlash # 0)
                  /\ DOMAIN specifications =
                         IF WrittenSlash # 0 THEN {"kind", "segments"}
                         ELSE {"kind", "signals"}
                  /\ WrittenSlash # 0 => Len(specifications.segments) = WrittenCount
                  /\ WrittenSlash = 0 => Len(specifications.signals) = WrittenCount
        /\ (\E i \in 1..Len(hea.lines) : hea.lines[i].kind = "text")
              /\ from_record_line(hea.lines[WrittenRecordLine].fields).ok
              /\ WrittenSpecLines < WrittenCount
              => ~hea.res.ok

\* `rec/2 1` followed by one valid segment line (and a comment) is rejected
C26_Witness ==
    /\ hea.on /\ hea.done /\ ~hea.res.ok
    /\ hea.lines = <<TextLine(<<<<"r", "e", "c", "/", "2">>, <<"1">>>>),
                     [kind |-> "comment", fields |-> <<>>],
                     TextLine(<<<<"r", "e", "c">>, <<"2">>>>)>>

(***************************************************************************)
(* C27: frames read through record.reader.read_frame()                     *)
(***************************************************************************)
\* the frames of the file the reader may return: all stored ones, cut at the
\* sample count of the record line when there is one
FramesToReturn ==
    IF rdr.num_samples # <<>> /\ rdr.num_samples[1] < Len(rdr.stored)
    THEN rdr.num_samples[1] ELSE Len(rdr.stored)

\* C27: each call returns one frame of numSignals samples holding the stored
\* two's-complement values with their signs, and None after the last frame.
C27_FramesKeepStoredValues ==
    (rdr.on /\ rdr.calls > 0) =>
        IF rdr.calls <= FramesToReturn
        THEN /\ rdr.last # <<>>
             /\ Len(rdr.last[1]) = rdr.num_signals
             /\ \A i \in 1..rdr.num_signals :
                   rdr.last[1][i] = rdr.stored[rdr.calls][i]
        ELSE rdr.last = <<>>

(***************************************************************************)
(* C28: Format 8 after reset()                                             *)
(***************************************************************************)
\* C28: the first sample a Format 8 decoder decodes after reset() equals the
\* first difference byte alone (as a signed byte), whatever was decoded before
\* the reset and whatever initial value the decoder was constructed with.
C28_FirstSampleAfterResetIsFirstDifference ==
    (dec.on /\ dec.fmt = 8 /\ dec.wasReset /\ Len(dec.out) >= 1) =>
        dec.out[1] = I8(dec.bytes[dec.base + 1])

(***************************************************************************)
(* C30: two readers opened on the same record                              *)
(***************************************************************************)
\* C30: whatever the interleaving of reads and seeks on two readers of one
\* record, every operation returns to each reader what it returns when the
\* reader's own operations are run alone, and the reader is in the same state
\* and at the same file positions.
C30_ReadersAreIndependent ==
    pair.on =>
        \A w \in {"x", "y"} :
            /\ pair.rd[w].last = pair.rd[w].solo_last
            /\ ReaderView(pair.rd[w].h, pair.fds) = pair.rd[w].solo

\* both readers are SignalReaders over the file "a"; x has read samples and y
\* has then sought, and the two stand at different offsets
C30_Witness ==
    /\ pair.on
    /\ pair.rd["y"].h.kind = "signal"
    /\ pair.rd["x"].h.r.file = "a" /\ pair.rd["y"].h.r.file = "a"
    /\ pair.rd["x"].last.op = "read" /\ Len(pair.rd["x"].last.out) = 2
    /\ pair.rd["y"].last.op = "seek" /\ pair.rd["y"].last.kind = "ok"
    /\ pair.fds[pair.rd["x"].h.fd[1]].offset # pair.fds[pair.rd["y"].h.fd[1]].offset

(***************************************************************************)
(* C31: the groups of a MultiSignalReader move in step                     *)
(***************************************************************************)
\* the bytes group g has consumed since the reader was created
GroupConsumed(g) == g.pos - g.initial_offset

\* C31: after any sequence of read_frame() calls on a reader with several
\* groups, every group's stream has consumed position() frames (for a group
\* of samples of a fixed byte width: position() times the frame's bytes).
C31_GroupsConsumePositionFrames ==
    (msr.on /\ ~msr.sought /\ Len(msr.r.groups) >= 2) =>
        \A gi \in 1..Len(msr.r.groups) :
            LET g == msr.r.groups[gi]
                bps == bytes_per_sample(g.decoder.fmt)
            IN  (bps # NoneU /\ bps > 0) =>
                    GroupConsumed(g) =
                        msr.r.current_frame * bps * Len(g.signal_indices)

(***************************************************************************)
(* C32: seek_to_frame is all or nothing                                    *)
(***************************************************************************)
\* C32: a seek_to_frame(k) either moves every group's stream to frame k, resets
\* every decoder and sets position() to k, or fails and leaves every group's
\* stream position, every decoder and position() as they were.
C32_SeekToFrameIsAtomic ==
    [][(msr.on /\ msr'.last.op = "seek") =>
          IF msr'.last.kind = "ok"
          THEN /\ msr'.r.current_frame = msr'.last.arg
               /\ \A gi \in 1..Len(msr.r.groups) :
                    LET g == msr.r.groups[gi]
                    IN  /\ msr'.r.groups[gi].decoder = reset(g.decoder)
                        /\ msr'.r.groups[gi].pos =
                              g.initial_offset + msr'.last.arg *
                                  bytes_per_frame(g.decoder.fmt, Len(g.signal_indices))
          ELSE msr'.r = msr.r]_vars

(***************************************************************************)
(* C33: a packed decoder at the end of the stream                          *)
(***************************************************************************)
\* the last decode_buf call returned fewer samples than were requested
ShortReturn == dec.on /\ dec.last >= 0 /\ dec.last < dec.req

GroupSamples(fmt) == IF fmt = 212 THEN 2 ELSE 3

\* the bytes of the stream from the position of the last reset (the start of
\* the stream for a new decoder)
BytesSinceReset == IF Len(dec.bytes) > dec.base THEN Len(dec.bytes) - dec.base ELSE 0

\* the samples the bytes since the reset hold: whole groups, and the first
\* sample of a trailing group of format 212 or 310 whose first two bytes are
\* there
SamplesHeld(fmt, m) ==
    CASE fmt = 212 -> 2 * (m \div 3) + (IF m % 3 = 2 THEN 1 ELSE 0)
      [] fmt = 310 -> 3 * (m \div 4) + (IF m % 4 >= 2 THEN 1 ELSE 0)
      [] OTHER -> 3 * (m \div 4)

\* C33 (as stated): when decode_buf of a packed decoder returns fewer samples
\* than requested, the samples produced since the last reset are a whole
\* number of pairs (212) or triples (310, 311) and the decoder is in its reset
\* state.
C33_ShortReturnAtGroupBoundary ==
    (ShortReturn /\ dec.fmt \in {212, 310, 311}) =>
        /\ Len(dec.out) % GroupSamples(dec.fmt) = 0
        /\ dec.d = reset(dec.d)

\* C33 (amended): when decode_buf of a packed decoder returns fewer samples
\* than requested, the decoder is at the start of a group (for 212 with no
\* kept word), and the samples produced since the last reset are those of the
\* whole groups plus, for 212 and 310, the first sample of a trailing group
\* that has its first two bytes; the other bytes of a trailing group yield no
\* sample.
C33_ShortReturnAtGroupStart ==
    (ShortReturn /\ dec.fmt \in {212, 310, 311}) =>
        /\ dec.d.phase = 0
        /\ dec.fmt = 212 => dec.d = reset(dec.d)
        /\ Len(dec.out) = SamplesHeld(dec.fmt, BytesSinceReset)

\* five bytes of format 212 have given three samples
C33_Witness ==
    /\ ShortReturn /\ dec.fmt = 212 /\ dec.base = 0 /\ Len(dec.bytes) = 5
    /\ Len(dec.out) = 3 /\ dec.last >= 1

(***************************************************************************)
(* C34: when SignalReader::seek_to_sample succeeds                         *)
(***************************************************************************)
\* C34: seek_to_sample succeeds exactly when the format of the signal has a
\* bytes_per_frame for the signal's interleaving width (width 1 included);
\* format 0 needs none and is not rejected.
C34_SeekSucceedsIffFrameBytesDefined ==
    (sr.on /\ sr.last.op = "seek") =>
        ((sr.last.kind = "ok") <=>
            \/ sr.r.decoder.fmt = 0
            \/ bytes_per_frame(sr.r.decoder.fmt, sr.r.signals_in_file) # NoneU)

(***************************************************************************)
(* C35: lazy loading of the segments                                       *)
(***************************************************************************)
SegStates == seg.r.segment_manager.states

\* C35: every segment is NotLoaded when the reader is created; a segment's
\* state changes only from NotLoaded, and a seek changes the state of no
\* segment but the one that holds the sample sought.
C35_SegmentLoadsOnOwnAccess ==
    [][seg.on =>
          \A i \in 1..Len(SegStates) :
              (SegStates'[i] # SegStates[i]) =>
                  /\ SegStates[i] = "NotLoaded"
                  /\ seg'.last.op = "seek" =>
                        i = find_segment_for_sample(seg.r, seg'.last.arg) + 1]_vars

(***************************************************************************)
(* Multi-segment records whose segments hold one format-311 signal: the    *)
(* file of segment i is one word with the samples 10 * (i + 1), 1 and 2.   *)
(* Format 311 has no bytes_per_frame, so the seek of the segment's reader  *)
(* returns an error.                                                       *)
(***************************************************************************)
PackedSegmentInfos(cfg) ==
    [k \in 1..Len(cfg) |->
        [record_name |-> IF cfg[k].null THEN "~" ELSE PackedSegmentNames[k],
         num_samples |-> cfg[k].num_samples]]

PackedSegmentFiles(cfg) ==
    [f \in {PackedSegmentNames[k] : k \in 1..Len(cfg)} |->
        LET k == CHOOSE k \in 1..Len(cfg) : PackedSegmentNames[k] = f
        IN  IF cfg[k].null THEN <<>> ELSE <<10 * k, 4, 32, 0>>]

InitSegPacked ==
    /\ \E cfg \in SegmentLists :
         seg = [on |-> TRUE, cfg |-> cfg, files |-> PackedSegmentFiles(cfg),
                r |-> SegmentReaderNew(PackedSegmentInfos(cfg)),
                hist |-> <<>>, reads |-> 0, seeked |-> FALSE,
                last |-> NoOp, prev |-> NoOp]
    /\ dec = Idle /\ msr = Idle /\ sr = Idle /\ hdr = Idle /\ sig = Idle /\ hea = Idle /\ rdr = Idle /\ pair = Idle

SpecSegPacked == InitSegPacked /\ [][NextSeg]_vars

\* what the caller sees of read_frame() on the reader r
NextFrameOf(r, files) ==
    LET res == SegReadFrame(r, files)
    IN  <<res.kind, res.frame>>

\* C36: a seek_to_sample call that returns an error leaves position(),
\* current_segment() and the frame the next read_frame() returns as they were
\* before the call.
C36_FailedSeekLeavesReader ==
    [][(seg.on /\ seg'.last.op = "seek" /\ seg'.last.kind = "err") =>
          /\ SegPosition(seg'.r) = SegPosition(seg.r)
          /\ SegCurrentSegment(seg'.r) = SegCurrentSegment(seg.r)
          /\ NextFrameOf(seg'.r, seg.files) = NextFrameOf(seg.r, seg.files)]_vars

(***************************************************************************)
(* C37: the initial value of the decoder a reader builds                   *)
(***************************************************************************)
\* SignalInfo::adc_zero (DEFAULT_ADC_ZERO is 0)
signal_adc_zero(info) == unwrap_or(info.adc_zero, 0)

\* SignalInfo::initial_value
signal_initial_value(info) == unwrap_or(info.initial_value, signal_adc_zero(info))

\* the signal file of info, every byte of which is the difference d
DifferenceFile(info, d) == [f \in {info.file_name} |-> [i \in 1..MaxLongBytes |-> d]]

\* the first sample the SignalReader of the parsed signal returns
FirstSampleRead(info, d) ==
    SrReadSamplesBuf(SrNew(<<info>>, 1), DifferenceFile(info, d), 1).out

\* C37: the decoder the reader builds for a format-8 signal starts from the
\* signal's effective initial value (the declared initial value or, when
\* none is declared, the ADC zero), so that the first sample read is that
\* value plus the first difference.
C37_DecoderStartsAtEffectiveInitialValue ==
    (sig.on /\ sig.done /\ sig.res.ok /\ sig.res.format = 8) =>
        /\ SrNew(<<sig.res>>, 1).decoder.acc = signal_initial_value(sig.res)
        /\ \A d \in {1, 3} :
             FirstSampleRead(sig.res, d) = <<signal_initial_value(sig.res) + d>>

(***************************************************************************)
(* C38: the single-signal reader against the frame reader                  *)
(***************************************************************************)
RECURSIVE SamplesUntilEnd(_, _, _)
\* read_samples_buf with a buffer of one sample, from the reader state r, until
\* a read returns no sample or an error, k reads at most
SamplesUntilEndStep(res, files, k) ==
    IF ~res.ok \/ res.out = <<>> THEN <<>>
    ELSE res.out \o SamplesUntilEnd(res.r, files, k - 1)

SamplesUntilEnd(r, files, k) ==
    IF k = 0 THEN <<>> ELSE SamplesUntilEndStep(SrReadSamplesBuf(r, files, 1), files, k)

RECURSIVE FramesUntilEnd(_, _, _)
\* read_frame from the reader state r until it returns no frame, an empty
\* frame or an error, k reads at most
FramesUntilEndStep(res, files, k) ==
    IF res.kind # "frame" \/ res.frame = <<>> THEN <<>>
    ELSE <<res.frame>> \o FramesUntilEnd(res.r, files, k - 1)

FramesUntilEnd(r, files, k) ==
    IF k = 0 THEN <<>> ELSE FramesUntilEndStep(MsrReadFrame(r, files), files, k)

\* the j-th entries of the frames
Column(frames, j) == [i \in 1..Len(frames) |-> frames[i][j]]

\* C38: the samples the single-signal reader of signal j returns, read from
\* the start until end of data, are the j-th entries of the frames the
\* multi-signal reader returns on the same record.
C38_SignalReaderMatchesFrames ==
    (sr.on /\ sr.last.op = "none") =>
        \A order \in Orders(FileNamesOf(sr.signals)) :
            SamplesUntilEnd(sr.r, sr.files, MaxFrames) =
                Column(FramesUntilEnd(MsrNew(sr.signals, order), sr.files, MaxFrames), sr.idx)

(***************************************************************************)
(* C39: position() of a SignalReader                                       *)
(***************************************************************************)
\* SignalReader::position
SrPosition(r) == r.current_sample

\* C39: position() is 0 after creation, k after a successful seek_to_sample(k),
\* grows by exactly the count a successful read returned, and is unchanged
\* by a read or a seek that returns an error.
C39_PositionIsNextSampleIndex ==
    /\ sr.on => SrPosition(sr.r) = 0
    /\ [][sr.on =>
            CASE sr'.last.kind = "err" -> SrPosition(sr'.r) = SrPosition(sr.r)
              [] sr'.last.kind = "ok" /\ sr'.last.op = "seek" ->
                     SrPosition(sr'.r) = sr'.last.arg
              [] sr'.last.kind = "ok" /\ sr'.last.op = "read" ->
                     SrPosition(sr'.r) = SrPosition(sr.r) + Len(sr'.last.out)
              [] OTHER -> SrPosition(sr'.r) >= SrPosition(sr.r)]_vars

(***************************************************************************)
(* C40: a request split into successive decode_buf calls.  total is the    *)
(* sum of the buffer sizes of the calls made since the decoder was         *)
(* created or reset.                                                       *)
(***************************************************************************)
DecChunk(n) ==
    /\ dec.on
    /\ dec.total + n <= MaxOut
    /\ LET r == decode_buf(dec.d, dec.bytes, dec.pos, n)
       IN  dec' = [dec EXCEPT !.d = r.d, !.pos = r.pos,
                              !.out = dec.out \o r.out, !.raw = dec.raw \o r.raw,
                              !.last = Len(r.out), !.req = n,
                              !.total = dec.total + n]
    /\ UNCHANGED <<msr, sr, seg, hdr, sig, hea, rdr, pair>>

\* reset(), then the next request starts at stream position p
DecChunkReset(p) ==
    /\ dec.on
    /\ dec' = [dec EXCEPT !.d = reset(dec.d), !.pos = p, !.base = p,
                          !.out = <<>>, !.raw = <<>>, !.last = -1, !.req = 0,
                          !.total = 0, !.wasReset = TRUE]
    /\ UNCHANGED <<msr, sr, seg, hdr, sig, hea, rdr, pair>>

NextChunk ==
    \/ \E n \in 1..MaxReq : DecChunk(n)
    \/ \E p \in {0, dec.pos} : DecChunkReset(p)

SpecChunk == InitDec /\ [][NextChunk]_vars

\* the decoder as it was when the request began: newly built, or reset
RequestStart ==
    IF dec.wasReset THEN reset(get_decoder(dec.fmt, dec.iv))
    ELSE get_decoder(dec.fmt, dec.iv)

\* one decode_buf call for the whole request
WholeRequest == decode_buf(RequestStart, dec.bytes, dec.base, dec.total)

\* C40: the samples returned by successive decode_buf calls whose buffer
\* sizes add up to n are, concatenated, the samples one decode_buf call for n
\* samples returns, and the same bytes are consumed.
C40_ChunkingDoesNotMatter ==
    dec.on => /\ dec.out = WholeRequest.out
              /\ dec.pos = WholeRequest.pos

\* a format 212 request of 4 samples made in several calls over a stream
\* that holds 3 samples: a call ends inside a pair and the last one is short
C40_Witness ==
    /\ dec.on /\ dec.fmt = 212
    /\ dec.total = 4 /\ dec.req = 1 /\ dec.last = 0
    /\ Len(dec.out) = 3 /\ dec.out[1] # dec.out[3]

====
